---- MODULE Spec2Model ----
(***************************************************************************)
(* State-machine model of the in-memory user repository of go-testing      *)
(* (package database: InMemoryUserRepository, a map[int]*User and a        *)
(* nextID counter guarded by a sync.RWMutex) together with the goroutines  *)
(* that call it.  The store keeps the *User pointers its callers pass, so  *)
(* the model has a heap of User objects and the map holds references.      *)
(***************************************************************************)
EXTENDS Integers, Sequences, FiniteSets, TLC

\* ---------------------------------------------------------------- bounds
NumProcs == 2      \* goroutines calling the repository
MaxActs == 3       \* caller actions (calls and field writes) in one run
MaxOperand == 3    \* calculator operands: the integers -MaxOperand..MaxOperand

Procs == 1..NumProcs
Objs == 1..MaxActs              \* heap slots: every new record takes an action
Names == {"a", "b"}
Emails == {"a@x.com", ""}
\* The contents <<Username, Email>> of the records callers build for
\* UpdateUser (the second leaves Email empty) and for CreateUser.
Contents == {<<"a", "a@x.com">>, <<"b", "">>}
NewContents == {<<"a", "a@x.com">>}
\* The ID a caller leaves in a new record it passes to CreateUser.
PresetIDs == {0, 1}
Nil == 0           \* the nil *User / no goroutine

VARIABLES
    users,      \* r.users: map[int]*User, a function from its keys to objects
    nextID,     \* r.nextID
    heap,       \* the User objects: heap[o] = [ID, Username, Email]
    readers,    \* r.mutex: goroutines holding the read lock
    writer,     \* r.mutex: the goroutine that called Lock and announced itself
    pc,         \* position of each goroutine in its current call
    op,         \* the method each goroutine is running
    arg,        \* its argument: an id (GetUser, DeleteUser) or an object
    res,        \* its result: the *User of GetUser
    lst,        \* its result: the []*User of ListUsers
    err,        \* its error result
    acts,       \* number of caller actions so far
    assigned,   \* history: identifiers assigned by CreateUser, in order
    floor,      \* history: the last identifier assigned when a create was issued
    orig,       \* history: per id, its latest write and the fields written
    deleted,    \* history: identifiers whose delete took effect
    http,       \* per goroutine, the HTTP request it serves and its response
    calc        \* the calculator call made by the latest caller, if any

vars == <<users, nextID, heap, readers, writer, pc, op, arg, res, lst, err,
          acts, assigned, floor, orig, deleted, http, calc>>
repo == <<users, nextID>>
mutex == <<readers, writer>>
hist == <<assigned, orig, deleted>>

\* type User struct { ID int; Username string; Email string }
User(i, u, e) == [ID |-> i, Username |-> u, Email |-> e]
ZeroUser == User(0, "", "")
Fields(o) == <<heap[o].Username, heap[o].Email>>
NoFields == <<"", "">>
\* history: nothing written under an id yet
Unwritten == [u |-> NoFields, st |-> "none", f |-> NoFields]
NotFound == "user not found"

Range(f) == {f[x] : x \in DOMAIN f}

\* An object is in flight while it is the argument of a running call.
InFlight(o) ==
    \E q \in Procs : pc[q] # "idle" /\ op[q] \in {"create", "update"} /\ arg[q] = o

\* An object is live while the store, a running call or a result refers to it.
\* A record nothing refers to is garbage: passing it again is the same as
\* passing a new record with its contents, so its slot is reclaimed.
Live(o) ==
    \/ o \in Range(users)
    \/ InFlight(o)
    \/ \E q \in Procs : res[q] = o \/ o \in Range(lst[q])

\* A new record takes the lowest free slot.
NewSlots == {o \in Objs : ~Live(o) /\ \A x \in 1..(o - 1) : Live(x)}

\* The heap h after the garbage of the next state is reclaimed.
Sweep(h) == [o \in Objs |-> IF Live(o)' THEN h[o] ELSE ZeroUser]

\* The identifiers callers ask for: those assigned so far and the next one,
\* which no record has yet.
IDs == 1..nextID

\* No request served yet: method and path, query parameters, body, status
\* and response body.
NoRequest ==
    [route |-> "", path |-> <<>>, query |-> <<>>, in |-> "", status |-> 0, out |-> ""]

\* --------------------------------------------------------- the calculator
\* float64 values: the finite ones as reduced fractions n/d with d > 0 (the
\* two zeros are one value: they compare equal), and NaN, +Inf, -Inf.
\* Arithmetic on the finite values is exact within the operands used.
RECURSIVE GCD(_, _)
GCD(a, b) == IF b = 0 THEN a ELSE GCD(b, a % b)
Abs(n) == IF n < 0 THEN 0 - n ELSE n
Fin(n, d) ==
    LET g == GCD(Abs(n), Abs(d))
        s == IF d < 0 THEN 0 - 1 ELSE 1
    IN  [n |-> s * (n \div g), d |-> s * (d \div g), k |-> "fin"]
NaN == [n |-> 0, d |-> 1, k |-> "nan"]
Inf(sign) == [n |-> sign, d |-> 1, k |-> "inf"]
Zero == Fin(0, 1)
Sign(x) == IF x.n < 0 THEN 0 - 1 ELSE IF x.n > 0 THEN 1 ELSE 0
\* x == 0 on float64
IsZero(x) == x.k = "fin" /\ x.n = 0
\* -x
Neg(x) == IF x.k = "nan" THEN NaN ELSE [x EXCEPT !.n = 0 - x.n]

\* Calculator.Add: return a + b
Add(a, b) ==
    IF a.k = "nan" \/ b.k = "nan" THEN NaN
    ELSE IF a.k = "inf" /\ b.k = "inf" THEN (IF a.n = b.n THEN a ELSE NaN)
    ELSE IF a.k = "inf" THEN a
    ELSE IF b.k = "inf" THEN b
    ELSE Fin(a.n * b.d + b.n * a.d, a.d * b.d)

\* Variant: Subtract takes a from b.
SubtractSwapped(a, b) ==
    IF a.k # "fin" \/ b.k # "fin" THEN NaN
    ELSE Fin(b.n * a.d - a.n * b.d, a.d * b.d)

\* Calculator.Subtract: return a - b
Subtract(a, b) ==
    IF a.k = "nan" \/ b.k = "nan" THEN NaN
    ELSE IF a.k = "inf" /\ b.k = "inf" THEN (IF a.n # b.n THEN a ELSE NaN)
    ELSE IF a.k = "inf" THEN a
    ELSE IF b.k = "inf" THEN Neg(b)
    ELSE Fin(a.n * b.d - b.n * a.d, a.d * b.d)

\* Calculator.Multiply: return a * b
Multiply(a, b) ==
    IF a.k = "nan" \/ b.k = "nan" THEN NaN
    ELSE IF a.k = "inf" \/ b.k = "inf"
      THEN (IF IsZero(a) \/ IsZero(b) THEN NaN ELSE Inf(Sign(a) * Sign(b)))
    ELSE Fin(a.n * b.n, a.d * b.d)

\* a / b on float64, for b that is not zero
Quotient(a, b) ==
    IF a.k = "nan" \/ b.k = "nan" THEN NaN
    ELSE IF a.k = "inf" /\ b.k = "inf" THEN NaN
    ELSE IF a.k = "inf" THEN Inf(Sign(a) * Sign(b))
    ELSE IF b.k = "inf" THEN Zero
    ELSE Fin(a.n * b.d, a.d * b.n)

DivisionByZero == "division by zero"

\* Variant: Divide refuses a zero dividend as well.
DivideStrict(a, b) ==
    IF IsZero(b) \/ IsZero(a) THEN [result |-> Zero, err |-> DivisionByZero]
    ELSE [result |-> Quotient(a, b), err |-> "nil"]

\* Calculator.Divide: if b == 0 { return 0, error }; return a / b, nil
Divide(a, b) ==
    IF IsZero(b) THEN [result |-> Zero, err |-> DivisionByZero]
    ELSE [result |-> Quotient(a, b), err |-> "nil"]

\* The calculator keeps no state.  What is recorded of it is the call made
\* by the latest caller: method, operands and results, or no call at all.
NoCalc == [err |-> "nil", a |-> Zero, b |-> Zero, result |-> Zero, fn |-> ""]
Called(fn, a, b, result, e) ==
    [err |-> e, a |-> a, b |-> b, result |-> result, fn |-> fn]

\* The operands of direct calls: small integers, zero and negative ones
\* among them, and the decimals 1.5 and 2.5 of the unit tests.
Operands == {Fin(n, 1) : n \in (0 - MaxOperand)..MaxOperand} \cup {Fin(3, 2), Fin(5, 2)}

\* NewUserRepository
Init ==
    /\ users = <<>>
    /\ nextID = 1
    /\ heap = [o \in Objs |-> ZeroUser]
    /\ readers = {}
    /\ writer = Nil
    /\ pc = [p \in Procs |-> "idle"]
    /\ op = [p \in Procs |-> "none"]
    /\ arg = [p \in Procs |-> 0]
    /\ res = [p \in Procs |-> Nil]
    /\ lst = [p \in Procs |-> <<>>]
    /\ err = [p \in Procs |-> "nil"]
    /\ acts = 0
    /\ assigned = <<>>
    /\ floor = [p \in Procs |-> 0]
    /\ orig = [i \in 1..(MaxActs + 1) |-> Unwritten]
    /\ deleted = {}
    /\ http = [p \in Procs |-> NoRequest]
    /\ calc = NoCalc

\* ------------------------------------------------------------ the callers
\* A caller writes a field of a record it holds a pointer to (one it passed
\* to the repository earlier or received from GetUser/ListUsers), outside any
\* repository call on that record.
SetField(o, f, v) ==
    /\ heap[o][f] # v
    /\ heap' = [heap EXCEPT ![o][f] = v]
    /\ acts' = acts + 1
    /\ UNCHANGED <<repo, mutex, pc, op, arg, res, lst, err, floor, hist, http, calc>>

CallerMutate ==
    /\ acts < MaxActs
    /\ \E o \in {x \in Objs : Live(x) /\ ~InFlight(x)} :
        \/ \E i \in 0..(nextID - 1) : SetField(o, "ID", i)
        \/ \E u \in Names : SetField(o, "Username", u)
        \/ \E e \in Emails : SetField(o, "Email", e)

\* history: the identifier CreateUser assigned last, 0 before the first.
LastAssigned == IF assigned = <<>> THEN 0 ELSE assigned[Len(assigned)]

\* Goroutines are interchangeable and an idle one carries no state, so a new
\* call always runs on the lowest-numbered idle goroutine.
Idle(p) == pc[p] = "idle" /\ \A q \in 1..(p - 1) : pc[q] # "idle"

\* A goroutine issues a call of method m with argument a.
Call(p, m, a) ==
    /\ Idle(p)
    /\ acts < MaxActs
    /\ acts' = acts + 1
    /\ pc' = [pc EXCEPT ![p] = "lock"]
    /\ op' = [op EXCEPT ![p] = m]
    /\ arg' = [arg EXCEPT ![p] = a]
    /\ floor' = [floor EXCEPT ![p] = IF m = "create" THEN LastAssigned ELSE 0]
    /\ UNCHANGED <<repo, mutex, res, lst, err, hist>>

\* The call is passed a new record, &User{ID: i, Username: c[1], Email: c[2]}.
CallNew(p, m, i, c) ==
    /\ Idle(p)
    /\ \E o \in NewSlots :
        /\ Call(p, m, o)
        /\ heap' = [heap EXCEPT ![o] = User(i, c[1], c[2])]

\* The call is passed a record the caller already holds a pointer to.
CallHeld(p, m) ==
    /\ Idle(p)
    /\ \E o \in Objs : Live(o) /\ Call(p, m, o)
    /\ UNCHANGED heap

CallGetUser(p) == (\E id \in IDs : Call(p, "get", id)) /\ UNCHANGED <<heap, http, calc>>
CallDeleteUser(p) == (\E id \in IDs : Call(p, "delete", id)) /\ UNCHANGED <<heap, http, calc>>
CallListUsers(p) == Call(p, "list", 0) /\ UNCHANGED <<heap, http, calc>>
CallCreateUser(p) ==
    (\E i \in PresetIDs, c \in NewContents : CallNew(p, "create", i, c)) /\ UNCHANGED <<http, calc>>
CallCreateUserAgain(p) ==
    (CallHeld(p, "create")) /\ UNCHANGED <<http, calc>>
CallUpdateUser(p) ==
    (\E id \in IDs, c \in Contents : CallNew(p, "update", id, c)) /\ UNCHANGED <<http, calc>>
CallUpdateUserAgain(p) ==
    (CallHeld(p, "update")) /\ UNCHANGED <<http, calc>>

\* ------------------------------------------------------------ sync.RWMutex
IsWrite(p) == op[p] \in {"create", "update", "delete"}

\* Variant: the read lock is exclusive (a sync.Mutex in place of the RWMutex).
RLockExclusive(p) ==
    /\ pc[p] = "lock" /\ ~IsWrite(p)
    /\ writer = Nil /\ readers = {}
    /\ readers' = readers \cup {p}
    /\ pc' = [pc EXCEPT ![p] = "cs"]
    /\ UNCHANGED <<repo, heap, writer, op, arg, res, lst, err, floor, acts, http, calc, hist>>

\* Variant: the read lock does not wait for a writer (no lock at all for
\* the readers).
RLockNoWait(p) ==
    /\ pc[p] = "lock" /\ ~IsWrite(p)
    /\ readers' = readers \cup {p}
    /\ pc' = [pc EXCEPT ![p] = "cs"]
    /\ UNCHANGED <<repo, heap, writer, op, arg, res, lst, err, floor, acts, http, calc, hist>>

\* r.mutex.RLock(): blocks while a writer holds or has announced the lock.
RLock(p) ==
    /\ pc[p] = "lock" /\ ~IsWrite(p)
    /\ writer = Nil
    /\ readers' = readers \cup {p}
    /\ pc' = [pc EXCEPT ![p] = "cs"]
    /\ UNCHANGED <<repo, heap, writer, op, arg, res, lst, err, floor, acts, http, calc, hist>>

\* Variant: a lock that admits a writer while another writer is inside.
LockAnnounceShared(p) ==
    /\ pc[p] = "lock" /\ IsWrite(p)
    /\ writer' = p
    /\ pc' = [pc EXCEPT ![p] = "wait"]
    /\ UNCHANGED <<repo, heap, readers, op, arg, res, lst, err, floor, acts, http, calc, hist>>

\* r.mutex.Lock(), first half: take the writer slot, which stops new readers.
LockAnnounce(p) ==
    /\ pc[p] = "lock" /\ IsWrite(p)
    /\ writer = Nil
    /\ writer' = p
    /\ pc' = [pc EXCEPT ![p] = "wait"]
    /\ UNCHANGED <<repo, heap, readers, op, arg, res, lst, err, floor, acts, http, calc, hist>>

\* Variant: Lock returns without waiting for the active readers to leave.
LockAcquireEarly(p) ==
    /\ pc[p] = "wait"
    /\ pc' = [pc EXCEPT ![p] = "cs"]
    /\ UNCHANGED <<repo, heap, mutex, op, arg, res, lst, err, floor, acts, http, calc, hist>>

\* r.mutex.Lock(), second half: proceed once the active readers have left.
LockAcquire(p) ==
    /\ pc[p] = "wait"
    /\ readers = {}
    /\ pc' = [pc EXCEPT ![p] = "cs"]
    /\ UNCHANGED <<repo, heap, mutex, op, arg, res, lst, err, floor, acts, http, calc, hist>>

\* The goroutine is idle again and lets go of its argument and results.
Finish(p) ==
    /\ pc' = [pc EXCEPT ![p] = "idle"]
    /\ op' = [op EXCEPT ![p] = "none"]
    /\ arg' = [arg EXCEPT ![p] = 0]
    /\ res' = [res EXCEPT ![p] = Nil]
    /\ lst' = [lst EXCEPT ![p] = <<>>]
    /\ err' = [err EXCEPT ![p] = "nil"]
    /\ floor' = [floor EXCEPT ![p] = 0]
    /\ heap' = Sweep(heap)

\* defer r.mutex.RUnlock() / defer r.mutex.Unlock(): runs as the method
\* returns.  CreateUser hands its result back through the caller's record, so
\* its return to the caller is kept as a step of its own (Return).
Release(p) ==
    /\ pc[p] = "unlock"
    /\ IF IsWrite(p)
         THEN writer' = Nil /\ UNCHANGED readers
         ELSE readers' = readers \ {p} /\ UNCHANGED writer
    /\ UNCHANGED <<repo, acts, hist>>
    /\ IF op[p] = "create"
         THEN /\ pc' = [pc EXCEPT ![p] = "ret"]
              /\ UNCHANGED <<heap, op, arg, res, lst, err, floor>>
         ELSE Finish(p)

\* The caller is a goroutine of the tests: no HTTP exchange is involved.
Unlock(p) == Release(p) /\ UNCHANGED <<http, calc>>

\* ------------------------------------------------------------ the methods
\* m[k] = o on a Go map
Put(m, k, o) == [j \in DOMAIN m \cup {k} |-> IF j = k THEN o ELSE m[j]]
\* delete(m, k) on a Go map
Remove(m, k) == [j \in DOMAIN m \ {k} |-> m[j]]
\* history: the write w took effect on id
Wrote(id, w) == [i \in DOMAIN orig |-> IF i = id THEN w ELSE orig[i]]
\* What GetUser(id) finds: user, exists := r.users[id]
Lookup(id) ==
    IF id \in DOMAIN users THEN [user |-> users[id], err |-> "nil"]
                          ELSE [user |-> Nil, err |-> NotFound]

\* Variant: GetUser unlocks by hand on the success path only, so its
\* 'user not found' return keeps the read lock.
GetUserLeak(p) ==
    /\ pc[p] = "cs" /\ op[p] = "get"
    /\ UNCHANGED <<repo, mutex, acts, http, calc, hist>>
    /\ IF arg[p] \in DOMAIN users
         THEN /\ res' = [res EXCEPT ![p] = Lookup(arg[p]).user]
              /\ pc' = [pc EXCEPT ![p] = "unlock"]
              /\ UNCHANGED <<heap, op, arg, lst, err, floor>>
         ELSE Finish(p)

\* GetUser: user, exists := r.users[id]; if !exists { return nil, error }
GetUser(p) ==
    /\ pc[p] = "cs" /\ op[p] = "get"
    /\ res' = [res EXCEPT ![p] = Lookup(arg[p]).user]
    /\ err' = [err EXCEPT ![p] = Lookup(arg[p]).err]
    /\ pc' = [pc EXCEPT ![p] = "unlock"]
    /\ UNCHANGED <<repo, heap, mutex, op, arg, lst, floor, acts, http, calc, hist>>

\* Variant: CreateUser numbers only records that carry no identifier yet
\* (if user.ID == 0 { user.ID = r.nextID }).
CreateUserAssignKeepID(p) ==
    /\ pc[p] = "cs" /\ op[p] = "create"
    /\ heap' = [heap EXCEPT ![arg[p]].ID = IF @ = 0 THEN nextID ELSE @]
    /\ assigned' = Append(assigned, heap'[arg[p]].ID)
    /\ pc' = [pc EXCEPT ![p] = "inc"]
    /\ UNCHANGED <<repo, mutex, op, arg, res, lst, err, floor, acts, http, calc, orig, deleted>>

\* Variant: the store has a capacity of one record and CreateUser fails
\* when it is full.
CreateUserAssignFull(p) ==
    /\ pc[p] = "cs" /\ op[p] = "create"
    /\ IF DOMAIN users # {}
         THEN /\ err' = [err EXCEPT ![p] = "repository full"]
              /\ pc' = [pc EXCEPT ![p] = "unlock"]
              /\ UNCHANGED <<heap, assigned>>
         ELSE /\ heap' = [heap EXCEPT ![arg[p]].ID = nextID]
              /\ assigned' = Append(assigned, nextID)
              /\ pc' = [pc EXCEPT ![p] = "inc"]
              /\ UNCHANGED err
    /\ UNCHANGED <<repo, mutex, op, arg, res, lst, floor, acts, http, calc, orig, deleted>>

\* CreateUser: user.ID = r.nextID
CreateUserAssign(p) ==
    /\ pc[p] = "cs" /\ op[p] = "create"
    /\ heap' = [heap EXCEPT ![arg[p]].ID = nextID]
    /\ assigned' = Append(assigned, nextID)
    /\ pc' = [pc EXCEPT ![p] = "inc"]
    /\ UNCHANGED <<repo, mutex, op, arg, res, lst, err, floor, acts, http, calc, orig, deleted>>

\* Variant: the counter advances by two.
CreateUserIncrTwice(p) ==
    /\ pc[p] = "inc" /\ op[p] = "create"
    /\ nextID' = nextID + 2
    /\ pc' = [pc EXCEPT ![p] = "mut"]
    /\ UNCHANGED <<users, heap, mutex, op, arg, res, lst, err, floor, acts, http, calc, hist>>

\* CreateUser: r.nextID++
CreateUserIncr(p) ==
    /\ pc[p] = "inc" /\ op[p] = "create"
    /\ nextID' = nextID + 1
    /\ pc' = [pc EXCEPT ![p] = "mut"]
    /\ UNCHANGED <<users, heap, mutex, op, arg, res, lst, err, floor, acts, http, calc, hist>>

\* Variant: CreateUser stores into a new map (r.users = map[int]*User{...}).
CreateUserStoreReset(p) ==
    /\ pc[p] = "mut" /\ op[p] = "create"
    /\ users' = Put(<<>>, heap[arg[p]].ID, arg[p])
    /\ orig' = Wrote(heap[arg[p]].ID,
                     [u |-> NoFields, st |-> "created", f |-> Fields(arg[p])])
    /\ pc' = [pc EXCEPT ![p] = "unlock"]
    /\ UNCHANGED <<nextID, mutex, op, arg, res, lst, err, floor, acts, http, calc,
                   assigned, deleted>>
    /\ heap' = Sweep(heap)

\* Variant: CreateUser stores under the counter (r.users[r.nextID] = user).
CreateUserStoreNext(p) ==
    /\ pc[p] = "mut" /\ op[p] = "create"
    /\ users' = Put(users, nextID, arg[p])
    /\ orig' = Wrote(nextID, [u |-> NoFields, st |-> "created", f |-> Fields(arg[p])])
    /\ pc' = [pc EXCEPT ![p] = "unlock"]
    /\ UNCHANGED <<nextID, mutex, op, arg, res, lst, err, floor, acts, http, calc,
                   assigned, deleted>>
    /\ heap' = Sweep(heap)

\* CreateUser: r.users[user.ID] = user
CreateUserStore(p) ==
    /\ pc[p] = "mut" /\ op[p] = "create"
    /\ users' = Put(users, heap[arg[p]].ID, arg[p])
    /\ orig' = Wrote(heap[arg[p]].ID,
                     [u |-> NoFields, st |-> "created", f |-> Fields(arg[p])])
    /\ pc' = [pc EXCEPT ![p] = "unlock"]
    /\ UNCHANGED <<nextID, mutex, op, arg, res, lst, err, floor, acts, http, calc,
                   assigned, deleted>>
    /\ heap' = Sweep(heap)

\* Variant: UpdateUser without the existence check (an upsert).
UpdateUserCheckUpsert(p) ==
    /\ pc[p] = "cs" /\ op[p] = "update"
    /\ pc' = [pc EXCEPT ![p] = "mut"]
    /\ UNCHANGED <<repo, heap, mutex, op, arg, res, lst, err, floor, acts, http, calc, hist>>

\* UpdateUser: if _, exists := r.users[user.ID]; !exists { return error }
UpdateUserCheck(p) ==
    /\ pc[p] = "cs" /\ op[p] = "update"
    /\ IF heap[arg[p]].ID \in DOMAIN users
         THEN pc' = [pc EXCEPT ![p] = "mut"] /\ UNCHANGED err
         ELSE /\ pc' = [pc EXCEPT ![p] = "unlock"]
              /\ err' = [err EXCEPT ![p] = NotFound]
    /\ UNCHANGED <<repo, heap, mutex, op, arg, res, lst, floor, acts, http, calc, hist>>

\* Variant: UpdateUser copies into the stored record field by field and
\* stops after the username.
UpdateUserStoreTorn(p) ==
    /\ pc[p] = "mut" /\ op[p] = "update"
    /\ orig' = Wrote(heap[arg[p]].ID,
                     [orig[heap[arg[p]].ID] EXCEPT !.st = "updated",
                                                   !.u = Fields(arg[p])])
    /\ pc' = [pc EXCEPT ![p] = "unlock"]
    /\ UNCHANGED <<repo, mutex, op, arg, res, lst, err, floor, acts, http, calc,
                   assigned, deleted>>
    /\ heap' = Sweep([heap EXCEPT
           ![users[heap[arg[p]].ID]].Username = heap[arg[p]].Username])

\* Variant: UpdateUser keeps the stored value of a field the new record
\* leaves empty (a merge).
UpdateUserStoreMerge(p) ==
    /\ pc[p] = "mut" /\ op[p] = "update"
    /\ users' = Put(users, heap[arg[p]].ID, arg[p])
    /\ orig' = Wrote(heap[arg[p]].ID,
                     [orig[heap[arg[p]].ID] EXCEPT !.st = "updated",
                                                   !.u = Fields(arg[p])])
    /\ pc' = [pc EXCEPT ![p] = "unlock"]
    /\ UNCHANGED <<nextID, mutex, op, arg, res, lst, err, floor, acts, http, calc,
                   assigned, deleted>>
    /\ heap' = Sweep([heap EXCEPT
           ![arg[p]].Username = IF @ = "" THEN heap[users[heap[arg[p]].ID]].Username ELSE @,
           ![arg[p]].Email = IF @ = "" THEN heap[users[heap[arg[p]].ID]].Email ELSE @])

\* Variant: UpdateUser counts every update as a new version (r.nextID++).
UpdateUserStoreBump(p) ==
    /\ pc[p] = "mut" /\ op[p] = "update"
    /\ users' = Put(users, heap[arg[p]].ID, arg[p])
    /\ nextID' = nextID + 1
    /\ orig' = Wrote(heap[arg[p]].ID,
                     [orig[heap[arg[p]].ID] EXCEPT !.st = "updated",
                                                   !.u = Fields(arg[p])])
    /\ pc' = [pc EXCEPT ![p] = "unlock"]
    /\ UNCHANGED <<mutex, op, arg, res, lst, err, floor, acts, http, calc,
                   assigned, deleted>>
    /\ heap' = Sweep(heap)

\* UpdateUser: r.users[user.ID] = user
UpdateUserStore(p) ==
    /\ pc[p] = "mut" /\ op[p] = "update"
    /\ users' = Put(users, heap[arg[p]].ID, arg[p])
    /\ orig' = Wrote(heap[arg[p]].ID,
                     [orig[heap[arg[p]].ID] EXCEPT !.st = "updated",
                                                   !.u = Fields(arg[p])])
    /\ pc' = [pc EXCEPT ![p] = "unlock"]
    /\ UNCHANGED <<nextID, mutex, op, arg, res, lst, err, floor, acts, http, calc,
                   assigned, deleted>>
    /\ heap' = Sweep(heap)

\* Variant: DeleteUser gives the lock up after its lookup has found the
\* record, so the removal is no longer part of the same critical section.
DeleteUserCheckReleases(p) ==
    /\ pc[p] = "cs" /\ op[p] = "delete"
    /\ IF arg[p] \in DOMAIN users
         THEN /\ pc' = [pc EXCEPT ![p] = "mut"]
              /\ writer' = Nil
              /\ UNCHANGED err
         ELSE /\ pc' = [pc EXCEPT ![p] = "unlock"]
              /\ err' = [err EXCEPT ![p] = NotFound]
              /\ UNCHANGED writer
    /\ UNCHANGED <<repo, heap, readers, op, arg, res, lst, floor, acts, http, calc, hist>>

\* Variant: DeleteUser of an absent identifier is a no-op that succeeds.
DeleteUserCheckNoOp(p) ==
    /\ pc[p] = "cs" /\ op[p] = "delete"
    /\ IF arg[p] \in DOMAIN users
         THEN pc' = [pc EXCEPT ![p] = "mut"]
         ELSE pc' = [pc EXCEPT ![p] = "unlock"]
    /\ UNCHANGED <<repo, heap, mutex, op, arg, res, lst, err, floor, acts, http, calc, hist>>

\* DeleteUser: if _, exists := r.users[id]; !exists { return error }
DeleteUserCheck(p) ==
    /\ pc[p] = "cs" /\ op[p] = "delete"
    /\ IF arg[p] \in DOMAIN users
         THEN pc' = [pc EXCEPT ![p] = "mut"] /\ UNCHANGED err
         ELSE /\ pc' = [pc EXCEPT ![p] = "unlock"]
              /\ err' = [err EXCEPT ![p] = NotFound]
    /\ UNCHANGED <<repo, heap, mutex, op, arg, res, lst, floor, acts, http, calc, hist>>

\* Variant: DeleteUser hands the freed identifier back to the counter.
DeleteUserRemoveReuse(p) ==
    /\ pc[p] = "mut" /\ op[p] = "delete"
    /\ users' = Remove(users, arg[p])
    /\ nextID' = arg[p]
    /\ deleted' = deleted \cup {arg[p]}
    /\ orig' = Wrote(arg[p], [orig[arg[p]] EXCEPT !.st = "deleted"])
    /\ pc' = [pc EXCEPT ![p] = "unlock"]
    /\ UNCHANGED <<mutex, op, arg, res, lst, err, floor, acts, http, calc, assigned>>
    /\ heap' = Sweep(heap)

\* DeleteUser: delete(r.users, id)
DeleteUserRemove(p) ==
    /\ pc[p] = "mut" /\ op[p] = "delete"
    /\ users' = Remove(users, arg[p])
    /\ deleted' = deleted \cup {arg[p]}
    /\ orig' = Wrote(arg[p], [orig[arg[p]] EXCEPT !.st = "deleted"])
    /\ pc' = [pc EXCEPT ![p] = "unlock"]
    /\ UNCHANGED <<nextID, mutex, op, arg, res, lst, err, floor, acts, http, calc,
                   assigned>>
    /\ heap' = Sweep(heap)

\* All orders in which a range over the map can visit the keys in ks.
RECURSIVE Orders(_)
Orders(ks) ==
    IF ks = {} THEN {<<>>}
    ELSE UNION {{<<k>> \o s : s \in Orders(ks \ {k})} : k \in ks}

\* Variant: ListUsers gives the read lock back before it returns.
ListUsersReleases(p) ==
    /\ pc[p] = "cs" /\ op[p] = "list"
    /\ \E ks \in Orders(DOMAIN users) :
           lst' = [lst EXCEPT ![p] = [j \in 1..Len(ks) |-> users[ks[j]]]]
    /\ readers' = readers \ {p}
    /\ pc' = [pc EXCEPT ![p] = "unlock"]
    /\ UNCHANGED <<repo, heap, writer, op, arg, res, err, floor, acts, http, calc, hist>>

\* Variant: ListUsers hands the records out and empties the store.
ListUsersDrain(p) ==
    /\ pc[p] = "cs" /\ op[p] = "list"
    /\ \E ks \in Orders(DOMAIN users) :
           lst' = [lst EXCEPT ![p] = [j \in 1..Len(ks) |-> users[ks[j]]]]
    /\ users' = <<>>
    /\ pc' = [pc EXCEPT ![p] = "unlock"]
    /\ UNCHANGED <<nextID, heap, mutex, op, arg, res, err, floor, acts, http, calc, hist>>

\* ListUsers: for _, user := range r.users { users = append(users, user) }
ListUsers(p) ==
    /\ pc[p] = "cs" /\ op[p] = "list"
    /\ \E ks \in Orders(DOMAIN users) :
           lst' = [lst EXCEPT ![p] = [j \in 1..Len(ks) |-> users[ks[j]]]]
    /\ pc' = [pc EXCEPT ![p] = "unlock"]
    /\ UNCHANGED <<repo, heap, mutex, op, arg, res, err, floor, acts, http, calc, hist>>

\* CreateUser has returned: its caller resumes and reads user.ID.
Resume(p) ==
    /\ pc[p] = "ret"
    /\ UNCHANGED <<repo, mutex, acts, hist>>
    /\ Finish(p)

Return(p) == Resume(p) /\ UNCHANGED <<http, calc>>

\* The callers only call the repository; they write no field themselves.
NextCalls ==
    \E p \in Procs :
        \/ CallGetUser(p)
        \/ CallCreateUser(p)
        \/ CallCreateUserAgain(p)
        \/ CallUpdateUser(p)
        \/ CallUpdateUserAgain(p)
        \/ CallDeleteUser(p)
        \/ CallListUsers(p)
        \/ RLock(p)
        \/ LockAnnounce(p)
        \/ LockAcquire(p)
        \/ GetUser(p)
        \/ CreateUserAssign(p)
        \/ CreateUserIncr(p)
        \/ CreateUserStore(p)
        \/ UpdateUserCheck(p)
        \/ UpdateUserStore(p)
        \/ DeleteUserCheck(p)
        \/ DeleteUserRemove(p)
        \/ ListUsers(p)
        \/ Unlock(p)
        \/ Return(p)

SpecCalls == Init /\ [][NextCalls]_vars

\* The callers also write fields of the records they hold.
Next == CallerMutate \/ NextCalls

Spec == Init /\ [][Next]_vars

\* The steps goroutine p takes inside a repository method, once called.
Run(p) ==
    \/ RLock(p) \/ LockAnnounce(p) \/ LockAcquire(p)
    \/ GetUser(p) \/ ListUsers(p)
    \/ CreateUserAssign(p) \/ CreateUserIncr(p) \/ CreateUserStore(p)
    \/ UpdateUserCheck(p) \/ UpdateUserStore(p)
    \/ DeleteUserCheck(p) \/ DeleteUserRemove(p)
    \/ Unlock(p) \/ Return(p)

\* Calls as the concurrency tests make them: every record passed is a fresh
\* one with a zero ID and one content, and no caller writes a field. Whether
\* a call returns depends on the lock protocol, not on the record's content.
CallCreateUserPlain(p) ==
    (\E c \in NewContents : CallNew(p, "create", 0, c)) /\ UNCHANGED <<http, calc>>
CallUpdateUserPlain(p) ==
    (\E id \in IDs, c \in NewContents : CallNew(p, "update", id, c)) /\ UNCHANGED <<http, calc>>
NextLive ==
    \E p \in Procs :
        \/ CallGetUser(p) \/ CallDeleteUser(p) \/ CallListUsers(p)
        \/ CallCreateUserPlain(p) \/ CallUpdateUserPlain(p)
        \/ Run(p)

\* The scheduler runs every goroutine that can take a step.
SpecFair == Init /\ [][NextLive]_vars /\ \A p \in Procs : WF_vars(Run(p))

\* Goroutines that only create, each with a record of its own
\* (TestRepositoryConcurrency "Concurrent writes", BenchmarkConcurrentWrites).
NextCreates ==
    \E p \in Procs :
        \/ CallCreateUser(p)
        \/ LockAnnounce(p)
        \/ LockAcquire(p)
        \/ CreateUserAssign(p)
        \/ CreateUserIncr(p)
        \/ CreateUserStore(p)
        \/ Unlock(p)
        \/ Return(p)

SpecCreates == Init /\ [][NextCreates]_vars

\* ------------------------------------------- direct calculator calls
\* A caller (a unit test) has called the calculator.
CallCalculator(c) ==
    /\ acts < MaxActs
    /\ acts' = acts + 1
    /\ calc' = c
    /\ UNCHANGED <<repo, heap, mutex, pc, op, arg, res, lst, err, floor, hist, http>>

CallAdd == \E a, b \in Operands : CallCalculator(Called("Add", a, b, Add(a, b), "nil"))
CallSubtract ==
    \E a, b \in Operands : CallCalculator(Called("Subtract", a, b, Subtract(a, b), "nil"))
CallMultiply ==
    \E a, b \in Operands : CallCalculator(Called("Multiply", a, b, Multiply(a, b), "nil"))
CallDivide ==
    \E a, b \in Operands :
        CallCalculator(Called("Divide", a, b, Divide(a, b).result, Divide(a, b).err))

NextCalculator == CallAdd \/ CallSubtract \/ CallMultiply \/ CallDivide

SpecCalculator == Init /\ [][NextCalculator]_vars

\* ---------------------------------------------------------- the API server
\* net/http status codes the handlers answer with
StatusOK == 200
StatusCreated == 201
StatusNoContent == 204
StatusBadRequest == 400
StatusNotFound == 404
StatusInternalServerError == 500

\* Paths are sequences of characters; JSON texts are strings.
Digits == <<"0", "1", "2", "3", "4", "5", "6", "7", "8", "9">>
IsDigit(c) == \E d \in 0..9 : Digits[d + 1] = c
DigitVal(c) == CHOOSE d \in 0..9 : Digits[d + 1] = c

\* strings.Split(s, sep)
RECURSIVE Split(_, _)
Split(s, sep) ==
    IF \A i \in DOMAIN s : s[i] # sep THEN <<s>>
    ELSE LET i == CHOOSE k \in DOMAIN s : s[k] = sep /\ \A j \in 1..(k - 1) : s[j] # sep
         IN  <<SubSeq(s, 1, i - 1)>> \o Split(SubSeq(s, i + 1, Len(s)), sep)

\* The value of a sequence of decimal digits.
RECURSIVE Number(_)
Number(ds) ==
    IF ds = <<>> THEN 0
    ELSE 10 * Number(SubSeq(ds, 1, Len(ds) - 1)) + DigitVal(ds[Len(ds)])

\* strconv.Atoi(s): an optional sign followed by one or more digits.
Atoi(s) ==
    LET signed == s # <<>> /\ s[1] \in {"+", "-"}
        ds == IF signed THEN Tail(s) ELSE s
    IN  IF ds = <<>> \/ \E i \in DOMAIN ds : ~IsDigit(ds[i])
          THEN [val |-> 0, err |-> TRUE]
          ELSE [val |-> IF signed /\ s[1] = "-" THEN 0 - Number(ds) ELSE Number(ds),
                err |-> FALSE]

\* Variant: the identifier is taken from the wrong element of the split path.
extractIDFromPathOffByOne(path) ==
    LET parts == Split(path, "/")
    IN  IF Len(parts) < 3 THEN [val |-> 0, err |-> TRUE] ELSE Atoi(parts[2])

\* Variant: an identifier that is not positive is an error as well.
extractIDFromPathPositive(path) ==
    LET parts == Split(path, "/")
    IN  IF Len(parts) < 3 \/ Atoi(parts[3]).val < 1
          THEN [val |-> 0, err |-> TRUE]
          ELSE Atoi(parts[3])

\* extractIDFromPath: parts := strings.Split(path, "/"); strconv.Atoi(parts[2])
\* (Go counts the parts from 0).
extractIDFromPath(path) ==
    LET parts == Split(path, "/")
    IN  IF Len(parts) < 3 THEN [val |-> 0, err |-> TRUE] ELSE Atoi(parts[3])

\* The path /users, and the path /users/<seg> of a request for one user.
UsersRoot == <<"/", "u", "s", "e", "r", "s">>
UsersPath(seg) == UsersRoot \o <<"/">> \o seg
\* The id segments clients send: two numbers, a word and nothing.
Segs == {<<"1">>, <<"2">>, <<"a", "b", "c">>, <<>>}

\* json.NewEncoder(w).Encode(user) for a User value
JSONOf(u) ==
    "{\"id\":" \o ToString(u.ID) \o ",\"username\":\"" \o u.Username
        \o "\",\"email\":\"" \o u.Email \o "\"}"
\* respondError: the JSON text of map[string]string{"error": message}
ErrorJSON(message) == "{\"error\":\"" \o message \o "\"}"

\* The User values request bodies encode, and bodies that are no JSON of a User.
Decodable == {User(i, u, e) : i \in PresetIDs, u \in Names \cup {""}, e \in Emails}
BadBodies == {"{invalid json}", "{\"id\":\"x\"}"}
\* The bodies clients send with POST /users.
Bodies == {JSONOf(User(i, c[1], c[2])) : i \in PresetIDs, c \in NewContents} \cup BadBodies

\* json.NewDecoder(r.Body).Decode(&user): the User whose JSON text the body
\* is, an error for a body that is none.
Decode(b) ==
    IF \E u \in Decodable : JSONOf(u) = b
      THEN [user |-> CHOOSE u \in Decodable : JSONOf(u) = b, err |-> FALSE]
      ELSE [user |-> ZeroUser, err |-> TRUE]

\* A request as its handler receives it.
Request(route, path, body) ==
    [route |-> route, path |-> path, query |-> <<>>, in |-> body, status |-> 0, out |-> ""]
\* respondJSON(w, status, data): the exchange r answered.
respondJSON(r, status, text) == [r EXCEPT !.status = status, !.out = text]
\* respondError(w, status, message)
respondError(r, status, message) == respondJSON(r, status, ErrorJSON(message))

\* A handler answers without calling the repository.
Answer(p, r) ==
    /\ Idle(p)
    /\ acts < MaxActs
    /\ acts' = acts + 1
    /\ http' = [http EXCEPT ![p] = r]
    /\ UNCHANGED <<repo, heap, mutex, pc, op, arg, res, lst, err, floor, hist>>

\* Variant: createUser ignores the error of Decode and goes on with the
\* zero User.
createUserNoCheck(p) ==
    /\ Idle(p) /\ acts < MaxActs
    /\ UNCHANGED calc
    /\ \E b \in Bodies :
        /\ CallNew(p, "create", Decode(b).user.ID,
                   <<Decode(b).user.Username, Decode(b).user.Email>>)
        /\ http' = [http EXCEPT ![p] = Request("POST /users", UsersRoot, b)]

\* Server.createUser, up to its call of the repository: decode the body,
\* answer 400 if that fails, else s.userRepo.CreateUser(&user).
createUser(p) ==
    /\ Idle(p) /\ acts < MaxActs
    /\ UNCHANGED calc
    /\ \E b \in Bodies :
        LET r == Request("POST /users", UsersRoot, b)
        IN  IF Decode(b).err
              THEN Answer(p, respondError(r, StatusBadRequest, "Invalid request body"))
              ELSE /\ CallNew(p, "create", Decode(b).user.ID,
                              <<Decode(b).user.Username, Decode(b).user.Email>>)
                   /\ http' = [http EXCEPT ![p] = r]

\* Server.createUser, after CreateUser has returned: 500 on an error, else
\* respondJSON(w, http.StatusCreated, user).
createUserRespond(p) ==
    /\ pc[p] = "ret" /\ op[p] = "create"
    /\ Resume(p)
    /\ UNCHANGED calc
    /\ http' = [http EXCEPT ![p] =
                   IF err[p] # "nil"
                     THEN respondError(@, StatusInternalServerError, "Error creating user")
                     ELSE respondJSON(@, StatusCreated, JSONOf(heap[arg[p]]))]

\* Server.getUser on the path /users/<seg>, up to its call of the
\* repository: extract the id,
\* answer 400 if that fails, else s.userRepo.GetUser(id).
getUserSeg(p, seg) ==
    /\ Idle(p) /\ acts < MaxActs
    /\ UNCHANGED calc
    /\ LET r == Request("GET /users/", UsersPath(seg), "")
        IN  IF extractIDFromPath(r.path).err
              THEN Answer(p, respondError(r, StatusBadRequest, "Invalid user ID"))
              ELSE /\ Call(p, "get", extractIDFromPath(r.path).val)
                   /\ http' = [http EXCEPT ![p] = r]
                   /\ UNCHANGED heap

getUser(p) == \E seg \in Segs : getUserSeg(p, seg)

\* Server.getUser, as GetUser returns: 404 on an error, else
\* respondJSON(w, http.StatusOK, user).
getUserRespond(p) ==
    /\ pc[p] = "unlock" /\ op[p] = "get"
    /\ Release(p)
    /\ UNCHANGED calc
    /\ http' = [http EXCEPT ![p] =
                   IF err[p] # "nil"
                     THEN respondError(@, StatusNotFound, "User not found")
                     ELSE respondJSON(@, StatusOK, JSONOf(heap[res[p]]))]

\* The bodies clients send with PUT /users/{id}: the JSON of a User whose id
\* is 1 whatever the path says and whose email is empty, and a body that is
\* no JSON.
UpdateBodies == {JSONOf(User(1, "b", "")), "{invalid json}"}

\* Variant: updateUser leaves the body's id in the record (no user.ID = id).
updateUserKeepBodyID(p) ==
    /\ Idle(p) /\ acts < MaxActs
    /\ UNCHANGED calc
    /\ \E seg \in Segs, b \in UpdateBodies :
        LET r == Request("PUT /users/", UsersPath(seg), b)
        IN  IF extractIDFromPath(r.path).err
              THEN Answer(p, respondError(r, StatusBadRequest, "Invalid user ID"))
              ELSE IF Decode(b).err
                THEN Answer(p, respondError(r, StatusBadRequest, "Invalid request body"))
                ELSE /\ CallNew(p, "update", Decode(b).user.ID,
                                <<Decode(b).user.Username, Decode(b).user.Email>>)
                     /\ http' = [http EXCEPT ![p] = r]

\* Server.updateUser, up to its call of the repository: extract the id and
\* answer 400 if that fails, decode the body and answer 400 if that fails,
\* user.ID = id, then s.userRepo.UpdateUser(&user).
updateUserSeg(p, seg) ==
    /\ Idle(p) /\ acts < MaxActs
    /\ UNCHANGED calc
    /\ \E b \in UpdateBodies :
        LET r == Request("PUT /users/", UsersPath(seg), b)
        IN  IF extractIDFromPath(r.path).err
              THEN Answer(p, respondError(r, StatusBadRequest, "Invalid user ID"))
              ELSE IF Decode(b).err
                THEN Answer(p, respondError(r, StatusBadRequest, "Invalid request body"))
                ELSE /\ CallNew(p, "update", extractIDFromPath(r.path).val,
                                <<Decode(b).user.Username, Decode(b).user.Email>>)
                     /\ http' = [http EXCEPT ![p] = r]

updateUser(p) == \E seg \in Segs : updateUserSeg(p, seg)

\* Variant: updateUser ignores the error of UpdateUser.
updateUserRespondAlways(p) ==
    /\ pc[p] = "unlock" /\ op[p] = "update"
    /\ Release(p)
    /\ UNCHANGED calc
    /\ http' = [http EXCEPT ![p] = respondJSON(@, StatusOK, JSONOf(heap[arg[p]]))]

\* Server.updateUser, as UpdateUser returns: 404 on an error, else
\* respondJSON(w, http.StatusOK, user).
updateUserRespond(p) ==
    /\ pc[p] = "unlock" /\ op[p] = "update"
    /\ Release(p)
    /\ UNCHANGED calc
    /\ http' = [http EXCEPT ![p] =
                   IF err[p] # "nil"
                     THEN respondError(@, StatusNotFound, "User not found")
                     ELSE respondJSON(@, StatusOK, JSONOf(heap[arg[p]]))]

\* Server.deleteUser on the path /users/<seg>, up to its call of the
\* repository: extract the id,
\* answer 400 if that fails, else s.userRepo.DeleteUser(id).
deleteUserSeg(p, seg) ==
    /\ Idle(p) /\ acts < MaxActs
    /\ UNCHANGED calc
    /\ LET r == Request("DELETE /users/", UsersPath(seg), "")
        IN  IF extractIDFromPath(r.path).err
              THEN Answer(p, respondError(r, StatusBadRequest, "Invalid user ID"))
              ELSE /\ Call(p, "delete", extractIDFromPath(r.path).val)
                   /\ http' = [http EXCEPT ![p] = r]
                   /\ UNCHANGED heap

deleteUser(p) == \E seg \in Segs : deleteUserSeg(p, seg)

\* Variant: deleteUser ignores the error of DeleteUser.
deleteUserRespondAlways(p) ==
    /\ pc[p] = "unlock" /\ op[p] = "delete"
    /\ Release(p)
    /\ UNCHANGED calc
    /\ http' = [http EXCEPT ![p] = [@ EXCEPT !.status = StatusNoContent]]

\* Server.deleteUser, as DeleteUser returns: 404 on an error, else
\* w.WriteHeader(http.StatusNoContent) and nothing written to the body.
deleteUserRespond(p) ==
    /\ pc[p] = "unlock" /\ op[p] = "delete"
    /\ Release(p)
    /\ UNCHANGED calc
    /\ http' = [http EXCEPT ![p] =
                   IF err[p] # "nil"
                     THEN respondError(@, StatusNotFound, "User not found")
                     ELSE [@ EXCEPT !.status = StatusNoContent]]

\* ------------------------------------------- the calculator endpoints
\* A sequence of characters as a string.
RECURSIVE Str(_)
Str(s) == IF s = <<>> THEN "" ELSE s[1] \o Str(Tail(s))
RECURSIVE Pow10(_)
Pow10(k) == IF k = 0 THEN 1 ELSE 10 * Pow10(k - 1)
AllDigits(ds) == ds # <<>> /\ \A i \in DOMAIN ds : IsDigit(ds[i])
\* The letters of the special values, whatever their case.
LowerChar(c) ==
    CASE c = "I" -> "i" [] c = "N" -> "n" [] c = "F" -> "f"
      [] c = "A" -> "a" [] c = "T" -> "t" [] c = "Y" -> "y" [] OTHER -> c
Lower(s) == [i \in DOMAIN s |-> LowerChar(s[i])]
InfText == <<"i", "n", "f">>
InfinityText == <<"i", "n", "f", "i", "n", "i", "t", "y">>
NanText == <<"n", "a", "n">>

\* Go error values: nil, strconv.ErrSyntax, and the *strconv.NumError that
\* ParseFloat returns for the text num.
NoError == [kind |-> "nil", num |-> <<>>]
ErrSyntax == [kind |-> "syntax", num |-> <<>>]
NumError(s) == [kind |-> "num", num |-> s]
\* err.Error(), with quote standing for the double quotes strconv.Quote puts
\* around the text: the mark itself, or its escape inside a JSON string.
ErrorString(e, quote) ==
    IF e.kind = "num"
      THEN "strconv.ParseFloat: parsing " \o quote \o Str(e.num) \o quote
               \o ": invalid syntax"
      ELSE "invalid syntax"

\* strconv.ParseFloat(s, 64) on decimal texts without exponent and on the
\* special values: [+-]inf, [+-]infinity, nan, in any case.
ParseFloat(s) ==
    LET signed == s # <<>> /\ s[1] \in {"+", "-"}
        sg == IF signed /\ s[1] = "-" THEN 0 - 1 ELSE 1
        t == IF signed THEN Tail(s) ELSE s
        parts == Split(t, ".")
    IN  IF Lower(t) \in {InfText, InfinityText}
          THEN [val |-> Inf(sg), err |-> NoError]
        ELSE IF ~signed /\ Lower(t) = NanText
          THEN [val |-> NaN, err |-> NoError]
        ELSE IF AllDigits(t)
          THEN [val |-> Fin(sg * Number(t), 1), err |-> NoError]
        ELSE IF Len(parts) = 2 /\ AllDigits(parts[1] \o parts[2])
          THEN [val |-> Fin(sg * Number(parts[1] \o parts[2]), Pow10(Len(parts[2]))),
                err |-> NoError]
        ELSE [val |-> Zero, err |-> NumError(s)]

\* r.URL.Query().Get(key): the value of the parameter, "" when it is absent.
Get(query, key) == IF key \in DOMAIN query THEN query[key] ELSE <<>>

\* getOperands
getOperands(query) ==
    LET aStr == Get(query, "a")
        bStr == Get(query, "b")
    IN  IF aStr = <<>> \/ bStr = <<>>
          THEN [a |-> Zero, b |-> Zero, err |-> ErrSyntax]
        ELSE IF ParseFloat(aStr).err # NoError
          THEN [a |-> Zero, b |-> Zero, err |-> ParseFloat(aStr).err]
        ELSE IF ParseFloat(bStr).err # NoError
          THEN [a |-> Zero, b |-> Zero, err |-> ParseFloat(bStr).err]
        ELSE [a |-> ParseFloat(aStr).val, b |-> ParseFloat(bStr).val, err |-> NoError]

\* The digits after the decimal point of r/d, at most k of them.
RECURSIVE FracDigits(_, _, _)
FracDigits(r, d, k) ==
    IF r = 0 \/ k = 0 THEN ""
    ELSE ToString((10 * r) \div d) \o FracDigits((10 * r) % d, d, k - 1)
\* strconv.FormatFloat(x, 'f', -1, 64): exact for the values whose decimal
\* text ends within 17 digits.
FloatText(x) ==
    IF x.k = "nan" THEN "NaN"
    ELSE IF x.k = "inf" THEN (IF x.n > 0 THEN "+Inf" ELSE "-Inf")
    ELSE IF x.d = 1 THEN ToString(x.n)
    ELSE (IF x.n < 0 THEN "-" ELSE "") \o ToString(Abs(x.n) \div x.d) \o "."
             \o FracDigits(Abs(x.n) % x.d, x.d, 17)
\* The JSON text of map[string]float64{"result": x}.
ResultJSON(x) == "{\"result\":" \o FloatText(x) \o "}"
\* json.NewEncoder(w).Encode(map[string]float64{"result": x}): encoding/json
\* returns an UnsupportedValueError for NaN and the infinities and then
\* writes nothing.
EncodeResult(x) ==
    IF x.k = "fin" THEN [text |-> ResultJSON(x), err |-> FALSE]
                   ELSE [text |-> "", err |-> TRUE]

\* The operand texts clients send: nothing, a word, three numbers and the
\* texts of two special values; and the queries made of them, in which a
\* parameter may be absent.
OperandTexts ==
    {<<>>, <<"a", "b", "c">>, <<"6">>, <<"3">>, <<"0">>, <<"N", "a", "N">>, <<"I", "n", "f">>}
Queries == UNION {[D -> OperandTexts] : D \in SUBSET {"a", "b"}}
CalculatorPath(name) ==
    <<"/", "c", "a", "l", "c", "u", "l", "a", "t", "o", "r", "/">> \o name
CalcRequest(route, name, query) ==
    [Request(route, CalculatorPath(name), "") EXCEPT !.query = query]

\* A calculator handler whose operands are bad: respondError(w, 400, err.Error()).
\* respondJSON ignores the error of Encode, so the body is what was written.
operandError(p, r, e) ==
    /\ Answer(p, respondError(r, StatusBadRequest, ErrorString(e, "\\\"")))
    /\ calc' = NoCalc

\* Server.add, serving a request with the query q
addQuery(p, q) ==
    /\ Idle(p) /\ acts < MaxActs
    /\ LET r == CalcRequest("GET /calculator/add", <<"a", "d", "d">>, q)
            o == getOperands(q)
        IN  IF o.err # NoError THEN operandError(p, r, o.err)
            ELSE /\ calc' = Called("Add", o.a, o.b, Add(o.a, o.b), "nil")
                 /\ Answer(p, respondJSON(r, StatusOK, EncodeResult(Add(o.a, o.b)).text))

add(p) == \E q \in Queries : addQuery(p, q)

\* Server.subtract, serving a request with the query q
subtractQuery(p, q) ==
    /\ Idle(p) /\ acts < MaxActs
    /\ LET r == CalcRequest("GET /calculator/subtract",
                             <<"s", "u", "b", "t", "r", "a", "c", "t">>, q)
            o == getOperands(q)
        IN  IF o.err # NoError THEN operandError(p, r, o.err)
            ELSE /\ calc' = Called("Subtract", o.a, o.b, Subtract(o.a, o.b), "nil")
                 /\ Answer(p, respondJSON(r, StatusOK,
                                          EncodeResult(Subtract(o.a, o.b)).text))

subtract(p) == \E q \in Queries : subtractQuery(p, q)

\* Server.multiply, serving a request with the query q
multiplyQuery(p, q) ==
    /\ Idle(p) /\ acts < MaxActs
    /\ LET r == CalcRequest("GET /calculator/multiply",
                             <<"m", "u", "l", "t", "i", "p", "l", "y">>, q)
            o == getOperands(q)
        IN  IF o.err # NoError THEN operandError(p, r, o.err)
            ELSE /\ calc' = Called("Multiply", o.a, o.b, Multiply(o.a, o.b), "nil")
                 /\ Answer(p, respondJSON(r, StatusOK,
                                          EncodeResult(Multiply(o.a, o.b)).text))

multiply(p) == \E q \in Queries : multiplyQuery(p, q)

\* Variant: divide counts the stored users in (a + len(s.users)).
divideQueryCounting(p, q) ==
    /\ Idle(p) /\ acts < MaxActs
    /\ LET r == CalcRequest("GET /calculator/divide",
                             <<"d", "i", "v", "i", "d", "e">>, q)
            o == getOperands(q)
            d == Divide(Add(o.a, Fin(Cardinality(DOMAIN users), 1)), o.b)
        IN  IF o.err # NoError THEN operandError(p, r, o.err)
            ELSE /\ calc' = Called("Divide", o.a, o.b, d.result, d.err)
                 /\ IF d.err # "nil"
                      THEN Answer(p, respondError(r, StatusBadRequest, "Division by zero"))
                      ELSE Answer(p, respondJSON(r, StatusOK, EncodeResult(d.result).text))

\* Server.divide, serving a request with the query q
divideQuery(p, q) ==
    /\ Idle(p) /\ acts < MaxActs
    /\ LET r == CalcRequest("GET /calculator/divide",
                             <<"d", "i", "v", "i", "d", "e">>, q)
            o == getOperands(q)
            d == Divide(o.a, o.b)
        IN  IF o.err # NoError THEN operandError(p, r, o.err)
            ELSE /\ calc' = Called("Divide", o.a, o.b, d.result, d.err)
                 /\ IF d.err # "nil"
                      THEN Answer(p, respondError(r, StatusBadRequest, "Division by zero"))
                      ELSE Answer(p, respondJSON(r, StatusOK, EncodeResult(d.result).text))

divide(p) == \E q \in Queries : divideQuery(p, q)

\* The clients of the calculator endpoints.
NextCalc == \E p \in Procs : add(p) \/ subtract(p) \/ multiply(p) \/ divide(p)

SpecCalc == Init /\ [][NextCalc]_vars

\* json.NewEncoder(w).Encode(users) for a []*User: the records in the order
\* of the slice, [] for the empty slice ListUsers makes.
RECURSIVE JSONList(_)
JSONList(l) ==
    IF l = <<>> THEN ""
    ELSE JSONOf(heap[l[1]]) \o (IF Len(l) > 1 THEN "," ELSE "") \o JSONList(Tail(l))

\* Server.listUsers, up to its call of the repository.
listUsers(p) ==
    /\ Idle(p) /\ acts < MaxActs
    /\ UNCHANGED calc
    /\ Call(p, "list", 0)
    /\ http' = [http EXCEPT ![p] = Request("GET /users", UsersRoot, "")]
    /\ UNCHANGED heap

\* Server.listUsers, as ListUsers returns: 500 on an error, else
\* respondJSON(w, http.StatusOK, users).
listUsersRespond(p) ==
    /\ pc[p] = "unlock" /\ op[p] = "list"
    /\ Release(p)
    /\ UNCHANGED calc
    /\ http' = [http EXCEPT ![p] =
                   IF err[p] # "nil"
                     THEN respondError(@, StatusInternalServerError, "Error retrieving users")
                     ELSE respondJSON(@, StatusOK, "[" \o JSONList(lst[p]) \o "]")]

\* The divide requests of TestCalculatorEndpoints: 6/3 and a division by zero.
DivideQueries ==
    {[k \in {"a", "b"} |-> IF k = "a" THEN <<"6">> ELSE b] : b \in {<<"3">>, <<"0">>}}

\* The server: every request is served by a goroutine running its handler.
\* The endpoints are those for single users and, of the calculator, the one
\* whose calculator call can fail.
NextHTTP ==
    \E p \in Procs :
        \/ \E q \in DivideQueries : divideQuery(p, q)
        \/ createUser(p)
        \/ getUser(p)
        \/ updateUser(p)
        \/ deleteUser(p)
        \/ RLock(p)
        \/ LockAnnounce(p)
        \/ LockAcquire(p)
        \/ GetUser(p)
        \/ CreateUserAssign(p)
        \/ CreateUserIncr(p)
        \/ CreateUserStore(p)
        \/ UpdateUserCheck(p)
        \/ UpdateUserStore(p)
        \/ DeleteUserCheck(p)
        \/ DeleteUserRemove(p)
        \/ op[p] = "create" /\ Unlock(p)
        \/ createUserRespond(p)
        \/ getUserRespond(p)
        \/ updateUserRespond(p)
        \/ deleteUserRespond(p)

SpecHTTP == Init /\ [][NextHTTP]_vars

\* The whole server: GET /users as well.
NextServer ==
    \/ NextHTTP
    \/ \E p \in Procs :
          \/ listUsers(p)
          \/ ListUsers(p)
          \/ listUsersRespond(p)

SpecServer == Init /\ [][NextServer]_vars

\* -------------------------------------- the two resources, side by side
\* The queries of the calculator requests made next to user requests: 6 and
\* 3, 6 and 0, and a word for a.
BothQueries ==
    DivideQueries \cup {[k \in {"a", "b"} |-> IF k = "a" THEN <<"a", "b", "c">> ELSE <<"3">>]}

\* POST /users and the four calculator endpoints served concurrently.
NextBoth ==
    \E p \in Procs :
        \/ \E q \in BothQueries :
              addQuery(p, q) \/ subtractQuery(p, q) \/ multiplyQuery(p, q) \/ divideQuery(p, q)
        \/ createUser(p)
        \/ LockAnnounce(p)
        \/ LockAcquire(p)
        \/ CreateUserAssign(p)
        \/ CreateUserIncr(p)
        \/ CreateUserStore(p)
        \/ op[p] = "create" /\ Unlock(p)
        \/ createUserRespond(p)

SpecBoth == Init /\ [][NextBoth]_vars

\* ------------------------------------------ identifiers that are not positive
\* The id segments of the requests: 0, -1 and 1.
IDSegs == {<<"0">>, <<"-", "1">>, <<"1">>}

\* POST /users, and GET, PUT and DELETE /users/<seg> for these segments.
NextIDs ==
    \E p \in Procs :
        \/ createUser(p)
        \/ \E seg \in IDSegs : getUserSeg(p, seg) \/ updateUserSeg(p, seg) \/ deleteUserSeg(p, seg)
        \/ RLock(p)
        \/ LockAnnounce(p)
        \/ LockAcquire(p)
        \/ GetUser(p)
        \/ CreateUserAssign(p)
        \/ CreateUserIncr(p)
        \/ CreateUserStore(p)
        \/ UpdateUserCheck(p)
        \/ UpdateUserStore(p)
        \/ DeleteUserCheck(p)
        \/ DeleteUserRemove(p)
        \/ op[p] = "create" /\ Unlock(p)
        \/ createUserRespond(p)
        \/ getUserRespond(p)
        \/ updateUserRespond(p)
        \/ deleteUserRespond(p)

SpecIDs == Init /\ [][NextIDs]_vars

\* ------------------------------ the server, with the encoding of a read
\* GetUser and ListUsers return (the deferred RUnlock runs) and the handler
\* encodes the records it was handed afterwards, holding no lock.
RUnlockReturn(p) ==
    /\ pc[p] = "unlock" /\ op[p] \in {"get", "list"}
    /\ readers' = readers \ {p}
    /\ pc' = [pc EXCEPT ![p] = "ret"]
    /\ UNCHANGED <<repo, heap, writer, op, arg, res, lst, err, floor, acts, http, calc, hist>>

\* Variant: getUser blanks the email of the record it was handed before it
\* encodes it (user.Email = "").
getUserEncodeRedact(p) ==
    /\ pc[p] = "ret" /\ op[p] = "get"
    /\ pc' = [pc EXCEPT ![p] = "idle"]
    /\ op' = [op EXCEPT ![p] = "none"]
    /\ arg' = [arg EXCEPT ![p] = 0]
    /\ res' = [res EXCEPT ![p] = Nil]
    /\ err' = [err EXCEPT ![p] = "nil"]
    /\ UNCHANGED <<repo, mutex, lst, floor, acts, hist, calc>>
    /\ heap' = Sweep(IF err[p] # "nil" THEN heap ELSE [heap EXCEPT ![res[p]].Email = ""])
    /\ http' = [http EXCEPT ![p] =
                   IF err[p] # "nil"
                     THEN respondError(@, StatusNotFound, "User not found")
                     ELSE respondJSON(@, StatusOK, JSONOf([heap[res[p]] EXCEPT !.Email = ""]))]

\* Server.getUser, after GetUser has returned: 404 on an error, else
\* respondJSON(w, http.StatusOK, user), which reads the record.
getUserEncode(p) ==
    /\ pc[p] = "ret" /\ op[p] = "get"
    /\ UNCHANGED <<repo, mutex, acts, hist, calc>>
    /\ Finish(p)
    /\ http' = [http EXCEPT ![p] =
                   IF err[p] # "nil"
                     THEN respondError(@, StatusNotFound, "User not found")
                     ELSE respondJSON(@, StatusOK, JSONOf(heap[res[p]]))]

\* Server.listUsers, after ListUsers has returned.
listUsersEncode(p) ==
    /\ pc[p] = "ret" /\ op[p] = "list"
    /\ UNCHANGED <<repo, mutex, acts, hist, calc>>
    /\ Finish(p)
    /\ http' = [http EXCEPT ![p] =
                   IF err[p] # "nil"
                     THEN respondError(@, StatusInternalServerError, "Error retrieving users")
                     ELSE respondJSON(@, StatusOK, "[" \o JSONList(lst[p]) \o "]")]

\* POST /users, PUT /users/{id}, GET /users/{id} and GET /users served
\* concurrently.
NextEncode ==
    \E p \in Procs :
        \/ createUser(p)
        \/ updateUser(p)
        \/ getUser(p)
        \/ listUsers(p)
        \/ RLock(p)
        \/ LockAnnounce(p)
        \/ LockAcquire(p)
        \/ GetUser(p)
        \/ ListUsers(p)
        \/ CreateUserAssign(p)
        \/ CreateUserIncr(p)
        \/ CreateUserStore(p)
        \/ UpdateUserCheck(p)
        \/ UpdateUserStore(p)
        \/ op[p] = "create" /\ Unlock(p)
        \/ createUserRespond(p)
        \/ updateUserRespond(p)
        \/ RUnlockReturn(p)
        \/ getUserEncode(p)
        \/ listUsersEncode(p)

SpecEncode == Init /\ [][NextEncode]_vars

\* ------------------------------------------------------- steps and views
\* The step in which goroutine p leaves position at of method m.
Step(p, m, at) == pc[p] = at /\ op[p] = m /\ pc'[p] # at
\* The body of p's call of m is done; p has not released the lock yet.
Done(p, m) == pc[p] = "unlock" /\ op[p] = m
\* CreateUser in p has assigned an identifier to its record.
Assigned(p) == op[p] = "create" /\ pc[p] \in {"inc", "mut", "unlock", "ret"}
\* Goroutine p is inside its critical section: between the return of
\* Lock/RLock and the deferred unlock.
InCS(p) == pc[p] \in {"cs", "inc", "mut", "unlock"}
\* No writer holds or waits for the lock: a reader can enter and observe.
Quiet == writer = Nil
\* The records the store holds, by key: what GetUser and ListUsers hand out.
View == [k \in DOMAIN users |-> heap[users[k]]]
\* A step of the body of a CreateUser, UpdateUser or DeleteUser call.
WriteStep ==
    \E p \in Procs : \E m \in {"create", "update", "delete"} :
        \E at \in {"cs", "inc", "mut"} : Step(p, m, at)

\* The step in which the request goroutine p serves is answered.
Answered(p) == http'[p] # http[p] /\ http'[p].status # 0
\* strconv.Itoa(n) for n >= 0, as a sequence of characters.
RECURSIVE Itoa(_)
Itoa(n) ==
    IF n < 10 THEN <<Digits[n + 1]>>
    ELSE Itoa(n \div 10) \o <<Digits[(n % 10) + 1]>>

\* ------------------------------------------------------------ properties
\* C1: on a fresh repository the k-th CreateUser call gives its record the
\* identifier k and stores it under key k, whatever identifier the caller
\* left in the record and whatever other calls ran between the creates.
C1_KthCreateGetsK ==
    [][\A p \in Procs :
          Step(p, "create", "mut") =>
              LET k == Len(assigned)
              IN  /\ heap'[arg[p]].ID = k
                  /\ k \in DOMAIN users' /\ users'[k] = arg[p]]_vars

\* C1 case: the second create's record carries 2 (its caller had left 0 or 1
\* in it) although a delete took effect before it.
C1_Witness ==
    \E p \in Procs :
        /\ Done(p, "create") /\ Len(assigned) = 2
        /\ heap[arg[p]].ID = 2 /\ deleted # {}

\* C2: concurrent CreateUser calls, each with a record of its own, never get
\* the same identifier, and no two records in the store carry the same one.
C2_DistinctIds ==
    /\ \A p, q \in Procs :
          p # q /\ Assigned(p) /\ Assigned(q) => heap[arg[p]].ID # heap[arg[q]].ID
    /\ \A i, j \in 1..Len(assigned) : i # j => assigned[i] # assigned[j]
    /\ \A a, b \in DOMAIN users : a # b => heap[users[a]].ID # heap[users[b]].ID

\* C2 case: two creates are in flight together and both have their identifier.
C2_Witness ==
    \E p, q \in Procs : p # q /\ Assigned(p) /\ Assigned(q)

\* C3 as stated: the identifiers follow the order in which the calls return:
\* when a create returns, no create still in flight has a smaller identifier.
C3_CompletionOrder ==
    [][\A p \in Procs :
          Step(p, "create", "ret") =>
              \A q \in Procs \ {p} :
                  Assigned(q) => heap[arg[q]].ID > heap[arg[p]].ID]_vars

\* C3 amended: n concurrent creates on a fresh repository get exactly 1..n,
\* without duplicates or gaps, in the order in which they hold the write
\* lock; a create gets an identifier greater than every identifier assigned
\* before it was issued, so calls that do not overlap are numbered in their
\* order of return, while overlapping calls may return in either order.
C3_LockOrder ==
    /\ \A k \in 1..Len(assigned) : assigned[k] = k
    /\ \A p \in Procs :
          Assigned(p) => /\ heap[arg[p]].ID \in 1..Len(assigned)
                         /\ heap[arg[p]].ID > floor[p]
    /\ (\A p \in Procs : pc[p] = "idle") => DOMAIN users = 1..Len(assigned)

\* C3 case: the create numbered 2 has returned while the create numbered 1,
\* which held the lock first, has not returned yet.
C3_Witness ==
    \E p \in Procs :
        /\ pc[p] = "ret" /\ heap[arg[p]].ID = 1
        /\ 2 \in DOMAIN users
        /\ \A q \in Procs \ {p} : pc[q] = "idle"

\* C4: identifiers are assigned in strictly increasing order, so none is
\* assigned twice, and the identifier of a deleted record never comes back
\* into the store.
C4_NeverReused ==
    /\ \A i, j \in 1..Len(assigned) : i < j => assigned[i] < assigned[j]
    /\ \A id \in deleted : id \notin DOMAIN users /\ id < nextID

\* C4 case: a create is assigned its identifier after a delete took effect.
C4_Witness ==
    \E p \in Procs : Done(p, "create") /\ deleted # {} /\ deleted \cap DOMAIN users = {}

\* C5 as stated: whatever records the callers pass, new ones or ones they
\* passed before, the record stored under key k carries the identifier k, and
\* no ListUsers result has two entries with the same identifier.
C5_OneRecordPerId ==
    /\ Quiet => \A k \in DOMAIN users : heap[users[k]].ID = k
    /\ \A p \in Procs : \A i, j \in DOMAIN lst[p] :
          i # j => heap[lst[p][i]].ID # heap[lst[p][j]].ID

\* C6 as stated: the records GetUser and ListUsers hand out change only in a
\* step of a CreateUser, UpdateUser or DeleteUser call; a caller writing a
\* field of a record it holds changes nothing the repository holds.
C6_OnlyWritesChangeView ==
    [][View' # View => WriteStep]_vars

\* C7 as stated: while an identifier has been created and neither updated nor
\* deleted since, GetUser on it succeeds with that identifier and the
\* username and email passed to CreateUser; on an identifier never created
\* or deleted it fails with "user not found".
C7_GetAfterCreate ==
    Quiet =>
        \A id \in DOMAIN orig :
            /\ orig[id].st = "created" =>
                  /\ Lookup(id).err = "nil"
                  /\ heap[Lookup(id).user] = User(id, orig[id].f[1], orig[id].f[2])
            /\ orig[id].st \in {"none", "deleted"} => Lookup(id).err = NotFound

\* C8 as stated: once an update of an identifier with record r has taken
\* effect, GetUser on it returns that identifier with r's username and email.
C8_GetAfterUpdate ==
    Quiet =>
        \A id \in DOMAIN orig :
            orig[id].st = "updated" =>
                /\ Lookup(id).err = "nil"
                /\ heap[Lookup(id).user] = User(id, orig[id].u[1], orig[id].u[2])

\* C9: UpdateUser on an identifier without a record fails with "user not
\* found" and changes neither the store nor the counter; no UpdateUser step
\* ever adds a key (no upsert).
C9_UpdateAbsentFails ==
    [][\A p \in Procs :
          /\ Step(p, "update", "cs") /\ heap[arg[p]].ID \notin DOMAIN users =>
                /\ err'[p] = NotFound /\ pc'[p] = "unlock"
                /\ repo' = repo /\ View' = View
          /\ Step(p, "update", "unlock") /\ err[p] = NotFound =>
                repo' = repo /\ View' = View
          /\ (\E at \in {"cs", "mut", "unlock"} : Step(p, "update", at)) =>
                DOMAIN users' = DOMAIN users /\ nextID' = nextID]_vars

\* C9 case: an update of a deleted identifier has failed.
C9_Witness ==
    \E p \in Procs :
        Done(p, "update") /\ err[p] = NotFound /\ heap[arg[p]].ID \in deleted

\* C10: when an update with record r takes effect, the record stored under
\* r's identifier has exactly r's username and email, empty ones included.
C10_UpdateOverwrites ==
    [][\A p \in Procs :
          Step(p, "update", "mut") =>
              LET id == heap[arg[p]].ID
              IN  /\ id \in DOMAIN users'
                  /\ heap'[users'[id]].ID = id
                  /\ heap'[users'[id]].Username = heap[arg[p]].Username
                  /\ heap'[users'[id]].Email = heap[arg[p]].Email]_vars

\* C10 case: a record created with an email was updated with a record whose
\* email is empty (the run is this create and this update), and the stored
\* email is empty.
C10_Witness ==
    \E p \in Procs :
        /\ acts = 2 /\ Done(p, "update") /\ err[p] = "nil"
        /\ orig[1].st = "updated" /\ orig[1].f[2] # ""
        /\ heap[users[1]].Email = ""

\* C11: GetUser on a deleted identifier fails with "user not found";
\* DeleteUser on an identifier without a record, a deleted one included,
\* fails with "user not found" and changes nothing; a DeleteUser that passes
\* the check removes the record and succeeds.
C11_DeleteThenNotFound ==
    [][\A p \in Procs :
          /\ Step(p, "get", "cs") /\ arg[p] \in deleted =>
                err'[p] = NotFound /\ res'[p] = Nil
          /\ Step(p, "delete", "cs") /\ (arg[p] \in deleted \/ arg[p] \notin DOMAIN users) =>
                err'[p] = NotFound /\ pc'[p] = "unlock" /\ repo' = repo
          /\ Step(p, "delete", "mut") =>
                arg[p] \notin DOMAIN users' /\ err'[p] = "nil"]_vars

\* C11 case: a second delete of an identifier has failed.
C11_Witness ==
    \E p \in Procs :
        Done(p, "delete") /\ err[p] = NotFound /\ arg[p] \in deleted

\* The fields last written under an identifier by CreateUser or UpdateUser.
Latest(id) == IF orig[id].st = "updated" THEN orig[id].u ELSE orig[id].f

\* C12 as stated: ListUsers returns no error and exactly one entry per
\* identifier created and not deleted, each with that identifier and the
\* fields of its latest write (so an empty list on an empty store).
C12_ListExact ==
    \A p \in Procs :
        Done(p, "list") =>
            LET ids == Range(assigned) \ deleted
            IN  /\ err[p] = "nil"
                /\ Len(lst[p]) = Cardinality(ids)
                /\ \A id \in ids :
                      \E i \in DOMAIN lst[p] :
                          heap[lst[p][i]] = User(id, Latest(id)[1], Latest(id)[2])

\* C13: while a CreateUser, UpdateUser or DeleteUser call is inside its
\* critical section, from before its existence lookup until after its
\* mutation, it holds the lock alone: no other call, write or read, is inside.
C13_WritesExclusive ==
    \A p \in Procs :
        IsWrite(p) /\ InCS(p) =>
            /\ writer = p /\ readers = {}
            /\ \A q \in Procs \ {p} : ~InCS(q)

\* C13 case: an update or delete is between its lookup and its mutation
\* while another call has been issued and is kept out.
C13_Witness ==
    \E p, q \in Procs :
        /\ p # q /\ pc[p] = "mut" /\ op[p] \in {"update", "delete"}
        /\ pc[q] = "lock"

\* C14: a GetUser or ListUsers call at the lock can enter whenever no writer
\* holds or awaits the lock, whatever reads are inside already.
C14_ReadsOverlap ==
    \A p \in Procs :
        pc[p] = "lock" /\ ~IsWrite(p) /\ writer = Nil => ENABLED RLock(p)

\* C14 case: two reads are inside their critical sections together.
C14_Witness ==
    \E p, q \in Procs :
        /\ p # q /\ {p, q} \subseteq readers
        /\ pc[p] = "cs" /\ pc[q] = "cs"
        /\ {op[p], op[q]} \subseteq {"get", "list"}

\* C15: under fair scheduling every call that was started returns; a
\* goroutine that has returned holds no lock, on the 'user not found' paths
\* too; and while a call is in flight some goroutine can take a step.
C15_NoBlocking ==
    /\ \A p \in Procs : (pc[p] # "idle") ~> (pc[p] = "idle")
    /\ [](\A p \in Procs : pc[p] \in {"idle", "ret"} => p \notin readers /\ writer # p)
    /\ []((\E p \in Procs : pc[p] # "idle") => \E p \in Procs : ENABLED Run(p))

\* C15 case: a call is on its 'user not found' path, the lock not yet
\* released, while a writer is kept waiting for the lock.
C15_Witness ==
    \E p, q \in Procs :
        /\ p # q /\ pc[p] = "unlock" /\ err[p] = NotFound
        /\ pc[q] \in {"lock", "wait"} /\ IsWrite(q)

\* C16: the lookup and the mutation of UpdateUser and DeleteUser are one
\* step for every other call: when a call is about to mutate, the record
\* it found is still there and no delete of it has taken effect (so two
\* deletes of one identifier never both succeed), and a deleted identifier
\* has no record, whatever update ran concurrently with the delete.
C16_CheckThenAct ==
    /\ \A p \in Procs :
          pc[p] = "mut" /\ op[p] = "delete" =>
              arg[p] \in DOMAIN users /\ arg[p] \notin deleted
    /\ \A p \in Procs :
          pc[p] = "mut" /\ op[p] = "update" =>
              heap[arg[p]].ID \in DOMAIN users /\ heap[arg[p]].ID \notin deleted
    /\ \A id \in deleted : id \notin DOMAIN users

\* C16 case: a delete has removed the record while a delete or an update
\* of the same identifier, issued concurrently, waits for the lock.
C16_Witness ==
    \E p, q \in Procs :
        /\ p # q /\ Done(p, "delete") /\ err[p] = "nil" /\ pc[q] = "lock"
        /\ \/ op[q] = "delete" /\ arg[q] = arg[p]
           \/ op[q] = "update" /\ heap[arg[q]].ID = arg[p]

C18_StaysRetrievable ==
    /\ \A id \in DOMAIN orig :
          orig[id].st \in {"created", "updated"} => id \in DOMAIN users
    /\ \A p \in Procs :
          Done(p, "get") /\ orig[arg[p]].st \in {"created", "updated"} =>
              err[p] = "nil" /\ res[p] = users[arg[p]]
    /\ \A p \in Procs :
          op[p] = "create" =>
              /\ err[p] = "nil"
              /\ pc[p] = "unlock" => Lookup(heap[arg[p]].ID).user = arg[p]

\* C18 case: a GetUser has succeeded on a record created earlier while a
\* CreateUser of another goroutine is in flight.
C18_Witness ==
    \E p, q \in Procs :
        /\ p # q /\ Done(p, "get") /\ err[p] = "nil" /\ res[p] # Nil
        /\ op[q] = "create" /\ pc[q] # "idle"

\* C19: POST /users with a body that is the JSON of a User answers 201 with
\* the JSON of the record created: the body's username and email under an
\* identifier the repository assigned during the request, whatever id the
\* body carried.  With a body that is no such JSON it answers 400 without
\* calling the repository; store, counter and records are unchanged.
C19_PostUsers ==
    [][\A p \in Procs :
          Answered(p) /\ http'[p].route = "POST /users" =>
              /\ http'[p].in \in BadBodies =>
                    /\ http'[p].status = StatusBadRequest
                    /\ pc[p] = "idle" /\ pc' = pc /\ op' = op
                    /\ repo' = repo /\ heap' = heap
              /\ \A u \in Decodable :
                    http'[p].in = JSONOf(u) =>
                        /\ http'[p].status = StatusCreated
                        /\ \E id \in Range(assigned) :
                              /\ id > floor[p]
                              /\ heap[arg[p]].ID = id
                              /\ orig[id].st # "none"
                              /\ orig[id].f = <<u.Username, u.Email>>
                              /\ http'[p].out = JSONOf(User(id, u.Username, u.Email))]_vars

\* C19 case: a body carrying id 1 was answered 201 with the identifier 2.
C19_Witness ==
    \E p \in Procs :
        /\ http[p].route = "POST /users" /\ http[p].status = StatusCreated
        /\ http[p].in = JSONOf(User(1, "a", "a@x.com"))
        /\ http[p].out = JSONOf(User(2, "a", "a@x.com"))

\* C20: GET /users/{id} answers 400 without calling the repository when the
\* id segment is not the decimal text of an integer; when it is the text of
\* n, it answers 404 if the store has no record under n and else 200 with
\* the JSON of that record: identifier n and the fields last stored under n.
C20_GetUserByID ==
    [][\A p \in Procs :
          Answered(p) /\ http'[p].route = "GET /users/" =>
              \A seg \in Segs :
                  http'[p].path = UsersPath(seg) =>
                      /\ (\A n \in 0..(MaxActs + 1) : seg # Itoa(n)) =>
                            /\ http'[p].status = StatusBadRequest
                            /\ pc[p] = "idle" /\ pc' = pc /\ op' = op
                            /\ repo' = repo
                      /\ \A n \in 0..(MaxActs + 1) :
                            seg = Itoa(n) =>
                                IF n \in DOMAIN users
                                  THEN /\ http'[p].status = StatusOK
                                       /\ http'[p].out =
                                            JSONOf(User(n, Latest(n)[1], Latest(n)[2]))
                                  ELSE http'[p].status = StatusNotFound]_vars

\* C20 case: GET /users/1 was answered 200 with the record created as 1.
C20_Witness ==
    \E p \in Procs :
        /\ http[p].route = "GET /users/" /\ http[p].path = UsersPath(<<"1">>)
        /\ http[p].status = StatusOK
        /\ http[p].out = JSONOf(User(1, "a", "a@x.com"))

\* The id segment is the decimal text of some identifier.
IsIntSeg(seg) == \E n \in 0..(MaxActs + 1) : seg = Itoa(n)
\* The handler of goroutine p answers in this step and has called nothing.
NoCall(p) == pc[p] = "idle" /\ pc' = pc /\ op' = op /\ repo' = repo /\ heap' = heap

\* C21: PUT /users/{id} answers 400 "Invalid user ID" without calling the
\* repository when the id segment is no integer, whatever the body; 400
\* "Invalid request body" without calling it when the segment is an integer
\* and the body is undecodable; 404 with the store unchanged when no record
\* exists under the path id; else 200 with the path id and the body's
\* username and email, which are then the record stored under that id, so a
\* GET /users/{id} answered while that update is the latest write of the id
\* returns the same values.
C21_PutUser ==
    [][\A p \in Procs :
          /\ Answered(p) /\ http'[p].route = "PUT /users/" =>
                \A seg \in Segs :
                    http'[p].path = UsersPath(seg) =>
                        /\ ~IsIntSeg(seg) =>
                              /\ http'[p].status = StatusBadRequest
                              /\ http'[p].out = ErrorJSON("Invalid user ID")
                              /\ NoCall(p)
                        /\ IsIntSeg(seg) /\ http'[p].in \in BadBodies =>
                              /\ http'[p].status = StatusBadRequest
                              /\ http'[p].out = ErrorJSON("Invalid request body")
                              /\ NoCall(p)
                        /\ \A n \in 0..(MaxActs + 1) : \A u \in Decodable :
                              seg = Itoa(n) /\ http'[p].in = JSONOf(u) =>
                                  IF n \in DOMAIN users
                                    THEN /\ http'[p].status = StatusOK
                                         /\ http'[p].out = JSONOf(User(n, u.Username, u.Email))
                                         /\ heap'[users'[n]] = User(n, u.Username, u.Email)
                                    ELSE /\ http'[p].status = StatusNotFound
                                         /\ repo' = repo
          /\ Step(p, "update", "cs") /\ heap[arg[p]].ID \notin DOMAIN users =>
                pc'[p] = "unlock" /\ repo' = repo /\ View' = View
          /\ Answered(p) /\ http'[p].route = "GET /users/" =>
                \A n \in 1..(MaxActs + 1) :
                    http'[p].path = UsersPath(Itoa(n)) /\ orig[n].st = "updated" =>
                        /\ http'[p].status = StatusOK
                        /\ http'[p].out = JSONOf(User(n, orig[n].u[1], orig[n].u[2]))]_vars

\* C21 case: PUT /users/1 was answered 200 with the body's username and its
\* empty email, and a GET /users/1 was then answered with the same record.
C21_Witness ==
    \E p, q \in Procs :
        /\ p # q
        /\ http[p].route = "PUT /users/" /\ http[p].path = UsersPath(<<"1">>)
        /\ http[p].status = StatusOK /\ http[p].out = JSONOf(User(1, "b", ""))
        /\ http[q].route = "GET /users/" /\ http[q].status = StatusOK
        /\ http[q].out = http[p].out

\* C22: DELETE /users/{id} answers 400 without calling the repository when
\* the id segment is no integer.  Its DeleteUser call fails, store unchanged,
\* when no record exists under the id, and the answer is then 404 with the
\* store unchanged; when the record exists the call removes it, and the
\* answer is 204 with an empty body and the record gone.  A GET /users/{id}
\* on an identifier whose delete took effect is answered 404.
C22_DeleteUser ==
    [][\A p \in Procs :
          /\ Answered(p) /\ http'[p].route = "DELETE /users/" =>
                \A seg \in Segs :
                    http'[p].path = UsersPath(seg) =>
                        /\ ~IsIntSeg(seg) =>
                              /\ http'[p].status = StatusBadRequest
                              /\ NoCall(p)
                        /\ \A n \in 0..(MaxActs + 1) :
                              seg = Itoa(n) =>
                                  /\ arg[p] = n /\ n \notin DOMAIN users'
                                  /\ IF err[p] = NotFound
                                       THEN /\ http'[p].status = StatusNotFound
                                            /\ http'[p].out = ErrorJSON("User not found")
                                            /\ repo' = repo
                                       ELSE /\ http'[p].status = StatusNoContent
                                            /\ http'[p].out = ""
                                            /\ n \in deleted
          /\ Step(p, "delete", "cs") =>
                IF arg[p] \in DOMAIN users
                  THEN pc'[p] = "mut" /\ err'[p] = "nil" /\ repo' = repo
                  ELSE pc'[p] = "unlock" /\ err'[p] = NotFound
                       /\ repo' = repo /\ View' = View
          /\ Step(p, "delete", "mut") =>
                /\ users' = Remove(users, arg[p]) /\ nextID' = nextID
                /\ arg[p] \in DOMAIN users /\ err'[p] = "nil"
          /\ Answered(p) /\ http'[p].route = "GET /users/" =>
                \A n \in 1..(MaxActs + 1) :
                    http'[p].path = UsersPath(Itoa(n)) /\ n \in deleted =>
                        http'[p].status = StatusNotFound]_vars

\* C22 case: DELETE /users/1 was answered 204 with an empty body and a
\* GET /users/1 was then answered 404.
C22_Witness ==
    \E p, q \in Procs :
        /\ p # q
        /\ http[p].route = "DELETE /users/" /\ http[p].path = UsersPath(<<"1">>)
        /\ http[p].status = StatusNoContent /\ http[p].out = ""
        /\ http[q].route = "GET /users/" /\ http[q].path = UsersPath(<<"1">>)
        /\ http[q].status = StatusNotFound

\* The calculator routes and the method each one calls.
CalcRoutes ==
    {"GET /calculator/add", "GET /calculator/subtract",
     "GET /calculator/multiply", "GET /calculator/divide"}
\* The result of the operation of a route on the operands a and b.
Operation(route, a, b) ==
    CASE route = "GET /calculator/add" -> Add(a, b)
      [] route = "GET /calculator/subtract" -> Subtract(a, b)
      [] route = "GET /calculator/multiply" -> Multiply(a, b)
      [] route = "GET /calculator/divide" -> Quotient(a, b)
\* The parameter key of query q is missing, empty or unparsable.
BadOperand(q, key) ==
    key \notin DOMAIN q \/ q[key] = <<>> \/ ParseFloat(q[key]).err # NoError

\* C23 as stated: every calculator endpoint answers 400, the calculator not
\* called, when operand a or b is missing, empty or unparsable; divide
\* answers 400 when b is zero; in every other case the answer is 200 with
\* the JSON text of the operation's result on the two operands.
C23_CalcEndpoints ==
    [][\A p \in Procs :
          Answered(p) /\ http'[p].route \in CalcRoutes =>
              LET q == http'[p].query
              IN  IF BadOperand(q, "a") \/ BadOperand(q, "b")
                    THEN http'[p].status = StatusBadRequest /\ calc' = NoCalc
                  ELSE IF http'[p].route = "GET /calculator/divide"
                            /\ IsZero(ParseFloat(q["b"]).val)
                    THEN http'[p].status = StatusBadRequest
                  ELSE /\ http'[p].status = StatusOK
                       /\ http'[p].out =
                            ResultJSON(Operation(http'[p].route, ParseFloat(q["a"]).val,
                                                 ParseFloat(q["b"]).val))]_vars

\* The bodies respondError writes for the failures of the server's calls.
ErrorBodies ==
    {ErrorJSON(m) : m \in {"User not found", "Error creating user",
                           "Error retrieving users", "Division by zero"}}
\* The status is none of the 2xx.
NotSuccess(status) == status \notin 200..299

\* C24: when the repository call of a request has returned an error, the
\* next step of its handler is the answer, with a status outside 2xx and an
\* error body and with the store unchanged: no further repository call, no
\* retry.  When the calculator call of a request returns an error, the
\* request is answered in the same way.
C24_ErrorsReported ==
    [][\A p \in Procs :
          /\ pc[p] \in {"unlock", "ret"} /\ err[p] # "nil" /\ pc'[p] # pc[p] =>
                /\ Answered(p) /\ pc'[p] = "idle"
                /\ NotSuccess(http'[p].status) /\ http'[p].out \in ErrorBodies
                /\ repo' = repo /\ acts' = acts
          /\ Answered(p) /\ http'[p].route \in CalcRoutes /\ calc'.err # "nil" =>
                /\ NotSuccess(http'[p].status) /\ http'[p].out \in ErrorBodies
                /\ pc' = pc /\ repo' = repo]_vars

\* C24 case: a request whose repository call failed was answered 404 and a
\* request whose Divide call failed was answered 400.
C24_Witness ==
    \E p, q \in Procs :
        /\ http[p].route \in {"GET /users/", "PUT /users/", "DELETE /users/"}
        /\ http[p].status = StatusNotFound
        /\ http[q].route = "GET /calculator/divide"
        /\ http[q].status = StatusBadRequest
        /\ calc.fn = "Divide" /\ calc.err = DivisionByZero

\* C25: Divide(a, b) returns the error "division by zero" and the result 0
\* exactly when b is zero, whatever a is, zero included; for every other b
\* it returns no error and the quotient: result * b = a.
C25_Divide ==
    calc.fn = "Divide" =>
        IF calc.b.n = 0
          THEN calc.err = DivisionByZero /\ calc.result = Zero
          ELSE /\ calc.err = "nil"
               /\ calc.result.k = "fin" /\ calc.result.d > 0
               /\ calc.result.n * calc.b.n * calc.a.d = calc.a.n * calc.b.d * calc.result.d

\* C25 case: Divide(0, 0) has returned the error.
C25_Witness ==
    /\ calc.fn = "Divide" /\ calc.a = Zero /\ calc.b = Zero
    /\ calc.err = DivisionByZero

\* C26: Add, Subtract and Multiply return no error and the sum, the
\* difference and the product of their operands, for zero and negative
\* operands too.
C26_AddSubtractMultiply ==
    LET a == calc.a
        b == calc.b
        r == calc.result
    IN  calc.fn \in {"Add", "Subtract", "Multiply"} =>
            /\ calc.err = "nil" /\ r.k = "fin" /\ r.d > 0
            /\ calc.fn = "Add" => r.n * a.d * b.d = (a.n * b.d + b.n * a.d) * r.d
            /\ calc.fn = "Subtract" => r.n * a.d * b.d = (a.n * b.d - b.n * a.d) * r.d
            /\ calc.fn = "Multiply" => r.n * a.d * b.d = a.n * b.n * r.d

\* C26 case: Subtract of a negative operand from zero has returned its
\* positive counterpart.
C26_Witness ==
    /\ calc.fn = "Subtract" /\ calc.a = Zero /\ calc.b.n < 0
    /\ calc.result.n = 0 - calc.b.n /\ calc.result.d = calc.b.d

\* C27: in every reachable state of the server the error a repository call
\* has returned is nil or "user not found", the latter only from GetUser,
\* UpdateUser and DeleteUser; CreateUser and ListUsers return nil, and no
\* request, POST /users and GET /users included, is answered 500.
C27_OnlyNotFound ==
    \A p \in Procs :
        /\ err[p] \in {"nil", NotFound}
        /\ err[p] = NotFound => op[p] \in {"get", "update", "delete"}
        /\ op[p] \in {"create", "list"} => err[p] = "nil"
        /\ http[p].status # StatusInternalServerError

\* C27 case: GET /users was answered 200 with a record created by a POST
\* while the repository call of another request has returned "user not
\* found".
C27_Witness ==
    \E p, q \in Procs :
        /\ http[p].route = "GET /users" /\ http[p].status = StatusOK
        /\ http[p].out = "[" \o JSONOf(User(1, "a", "a@x.com")) \o "]"
        /\ pc[q] = "unlock" /\ err[q] = NotFound

\* ------------------------------------------- the sequential repository
\* A plain map and counter on which one call runs at a time: the map, the
\* counter and the record found under each key.
Plain(us, n, h) == [users |-> us, nextID |-> n, view |-> [k \in DOMAIN us |-> h[us[k]]]]
\* CreateUser(o), UpdateUser(o), DeleteUser(id), GetUser(id) and ListUsers
\* run in one piece on the plain repository S; o is a record of the heap h.
SeqCreate(S, h, o) ==
    [err |-> "nil", id |-> S.nextID,
     next |-> Plain(Put(S.users, S.nextID, o), S.nextID + 1,
                    [h EXCEPT ![o].ID = S.nextID])]
SeqUpdate(S, h, o) ==
    IF h[o].ID \in DOMAIN S.users
      THEN [err |-> "nil", id |-> h[o].ID, next |-> Plain(Put(S.users, h[o].ID, o), S.nextID, h)]
      ELSE [err |-> NotFound, id |-> h[o].ID, next |-> S]
SeqDelete(S, h, id) ==
    IF id \in DOMAIN S.users
      THEN [err |-> "nil", id |-> id, next |-> Plain(Remove(S.users, id), S.nextID, h)]
      ELSE [err |-> NotFound, id |-> id, next |-> S]
SeqGet(S, id) ==
    IF id \in DOMAIN S.users THEN [user |-> S.users[id], err |-> "nil"]
                             ELSE [user |-> Nil, err |-> NotFound]
SeqList(S) == {[j \in 1..Len(ks) |-> S.users[ks[j]]] : ks \in Orders(DOMAIN S.users)}
\* The write call of goroutine p, run in one piece on S.
SeqWrite(S, h, p) ==
    CASE op[p] = "create" -> SeqCreate(S, h, arg[p])
      [] op[p] = "update" -> SeqUpdate(S, h, arg[p])
      [] op[p] = "delete" -> SeqDelete(S, h, arg[p])

\* The repository as it is.
Concrete == Plain(users, nextID, heap)
\* The call that is inside its critical section as a writer and not done.
Writing(p) == IsWrite(p) /\ pc[p] \in {"cs", "inc", "mut"}
\* The plain repository a state stands for: the repository as it is, with
\* the call that is inside its critical section as a writer run to its end
\* (a write takes effect for all others when it gets the lock).
Abstract ==
    IF \A p \in Procs : ~Writing(p) THEN Concrete
    ELSE LET p == CHOOSE q \in Procs : Writing(q)
             id == heap[arg[p]].ID
         IN  CASE op[p] = "create" /\ pc[p] = "cs" -> SeqCreate(Concrete, heap, arg[p]).next
               [] op[p] = "create" /\ pc[p] = "inc" ->
                      Plain(Put(users, id, arg[p]), nextID + 1, heap)
               [] op[p] = "create" /\ pc[p] = "mut" ->
                      Plain(Put(users, id, arg[p]), nextID, heap)
               [] op[p] = "update" /\ pc[p] = "cs" -> SeqUpdate(Concrete, heap, arg[p]).next
               [] op[p] = "update" /\ pc[p] = "mut" ->
                      Plain(Put(users, id, arg[p]), nextID, heap)
               [] op[p] = "delete" /\ pc[p] = "cs" -> SeqDelete(Concrete, heap, arg[p]).next
               [] op[p] = "delete" /\ pc[p] = "mut" ->
                      Plain(Remove(users, arg[p]), nextID, heap)

\* C28: every execution of concurrent repository calls is one of the plain
\* repository on which the calls run one at a time: a write takes effect in
\* the step in which it gets the lock, a read in the step in which it reads;
\* both lie between the call and its return.  In that step the plain
\* repository changes as the call run in one piece changes it, no other step
\* changes it, and every call returns what the call run in one piece
\* returns: the record or list, the identifier assigned, the error.
C28_Linearizable ==
    [][/\ \A p \in Procs :
            /\ pc[p] = "wait" /\ pc'[p] = "cs" =>
                  Abstract' = SeqWrite(Abstract, heap, p).next
            /\ Step(p, "get", "cs") =>
                  /\ res'[p] = SeqGet(Abstract, arg[p]).user
                  /\ err'[p] = SeqGet(Abstract, arg[p]).err
            /\ Step(p, "list", "cs") =>
                  lst'[p] \in SeqList(Abstract) /\ err'[p] = "nil"
            /\ IsWrite(p) /\ pc[p] = "cs" /\ pc'[p] # "cs" =>
                  /\ err'[p] = SeqWrite(Concrete, heap, p).err
                  /\ op[p] = "create" => heap'[arg[p]].ID = SeqWrite(Concrete, heap, p).id
            /\ pc[p] \in {"unlock", "ret"} =>
                  err'[p] \in {err[p], "nil"} /\ (pc'[p] # "idle" => err'[p] = err[p])
       /\ (\A p \in Procs : ~(pc[p] = "wait" /\ pc'[p] = "cs")) => Abstract' = Abstract]_vars

\* C28 case: a CreateUser is in the middle of its critical section, its
\* identifier assigned and its record not stored yet, while a read of that
\* identifier, called meanwhile, waits for the lock.
C28_Witness ==
    \E p, q \in Procs :
        /\ pc[p] = "mut" /\ op[p] = "create"
        /\ pc[q] = "lock" /\ op[q] = "get" /\ arg[q] = heap[arg[p]].ID

\* history: the CreateUser calls that have incremented the counter: those
\* that were assigned an identifier, less the one between its assignment
\* and its increment.
Incremented ==
    Len(assigned) - Cardinality({p \in Procs : op[p] = "create" /\ pc[p] = "inc"})

\* C29: the counter is 1 plus the number of CreateUser calls that have
\* incremented it, every key of the store lies in 1..counter-1, and no step
\* decreases the counter.
C29_Counter ==
    /\ [](/\ nextID = 1 + Incremented
          /\ DOMAIN users \subseteq 1..(nextID - 1))
    /\ [][nextID' >= nextID]_vars

\* C29 case: a second CreateUser has its identifier and has not incremented
\* the counter yet, after the first record was deleted.
C29_Witness ==
    \E p \in Procs :
        /\ op[p] = "create" /\ pc[p] = "inc"
        /\ nextID = 2 /\ 1 \in deleted /\ users = <<>>

\* A step of goroutine p in a call of m, from the call to the return.
StepOf(p, m) == pc'[p] # pc[p] /\ (IF pc[p] = "idle" THEN op'[p] ELSE op[p]) = m

\* C30: no step of a GetUser or ListUsers call, found or not, changes the
\* store, the records in it or the counter; a DeleteUser of an absent
\* identifier goes from its check straight to its return with "user not
\* found", and no step of a DeleteUser other than the removal changes them.
C30_ReadsChangeNothing ==
    [][\A p \in Procs :
          /\ StepOf(p, "get") \/ StepOf(p, "list") \/ (StepOf(p, "delete") /\ pc[p] # "mut") =>
                users' = users /\ View' = View /\ nextID' = nextID
          /\ Step(p, "delete", "cs") /\ arg[p] \notin DOMAIN users =>
                pc'[p] = "unlock" /\ err'[p] = NotFound]_vars

\* C30 case: a DeleteUser of an absent identifier has failed on a store
\* that holds a record, while a ListUsers waits for the lock.
C30_Witness ==
    \E p, q \in Procs :
        /\ Done(p, "delete") /\ err[p] = NotFound /\ users # <<>>
        /\ pc[q] = "lock" /\ op[q] = "list"

\* C31 as stated: the storing step of a successful UpdateUser(id) keeps the
\* set of keys, every record under another key and the counter, and no other
\* step of an UpdateUser changes anything; the removing step of a successful
\* DeleteUser(id) removes the key id alone and keeps every other record and
\* the counter; a CreateUser adds one new key in its storing step and none
\* of its steps changes a record the store already holds.
C31_WritesFrame ==
    [][\A p \in Procs :
          /\ Step(p, "update", "mut") =>
                /\ DOMAIN users' = DOMAIN users /\ nextID' = nextID
                /\ \A k \in DOMAIN users \ {heap[arg[p]].ID} : View'[k] = View[k]
          /\ Step(p, "update", "cs") => users' = users /\ View' = View /\ nextID' = nextID
          /\ Step(p, "delete", "mut") =>
                /\ arg[p] \in DOMAIN users
                /\ DOMAIN users' = DOMAIN users \ {arg[p]} /\ nextID' = nextID
                /\ \A k \in DOMAIN users' : View'[k] = View[k]
          /\ Step(p, "create", "mut") =>
                /\ heap[arg[p]].ID \notin DOMAIN users
                /\ DOMAIN users' = DOMAIN users \cup {heap[arg[p]].ID}
          /\ (\E at \in {"cs", "inc", "mut"} : Step(p, "create", at)) =>
                \A k \in DOMAIN users : View'[k] = View[k]]_vars

\* C32: ListUsers returns the store of one instant of its call: from the
\* return of RLock to the deferred RUnlock no step adds or removes a key or
\* changes a stored record, no write is half done, and the list built then
\* holds the record of every key stored exactly once.  So a record that is
\* present during the whole call is in the list, and the key of a delete
\* that took effect before is not.
C32_ListSnapshot ==
    [][\A p \in Procs :
          /\ op[p] = "list" /\ pc[p] \in {"cs", "unlock"} =>
                /\ users' = users /\ View' = View
                /\ \A q \in Procs : ~Writing(q)
          /\ Step(p, "list", "cs") =>
                /\ lst'[p] \in SeqList(Concrete)
                /\ \A k \in DOMAIN users : \E j \in DOMAIN lst'[p] : lst'[p][j] = users[k]
                /\ \A k \in deleted : k \notin DOMAIN users]_vars

\* C32 case: a ListUsers has listed a stored record and not returned yet,
\* while a CreateUser or DeleteUser called meanwhile waits for the lock.
C32_Witness ==
    \E p, q \in Procs :
        /\ Done(p, "list") /\ lst[p] # <<>>
        /\ pc[q] = "wait" /\ op[q] \in {"create", "delete"}

\* The pairs written as a whole under an identifier: that of its create
\* and that of its latest update.
WholePairs(id) == {orig[id].f, orig[id].u} \ {NoFields}

\* C33: every POST and PUT passes the repository a new record; the only
\* write to a record that something refers to is the identifier CreateUser
\* assigns to a record not stored or handed out yet; an update puts its
\* record in the place of the stored one; and the body of a GET /users/{id}
\* or GET /users, encoded after the repository call has returned and while
\* a PUT may store, is for each identifier the JSON text of one whole
\* record: the identifier with the pair of its create or of its update.
C33_WholeRecords ==
    [][/\ \A o \in Objs :
             Live(o) /\ Live(o)' /\ heap'[o] # heap[o] =>
                 /\ \E p \in Procs : Step(p, "create", "cs") /\ arg[p] = o
                 /\ o \notin Range(users)
                 /\ \A q \in Procs : res[q] # o /\ o \notin Range(lst[q])
       /\ \A p \in Procs :
             /\ pc[p] = "idle" /\ op'[p] \in {"create", "update"} => ~Live(arg'[p])
             /\ Step(p, "update", "mut") =>
                   /\ users'[heap[arg[p]].ID] = arg[p]
                   /\ users[heap[arg[p]].ID] # arg[p]
             /\ Step(p, "get", "ret") /\ err[p] = "nil" =>
                   /\ http'[p].status = StatusOK
                   /\ http'[p].out = JSONOf(heap[res[p]])
                   /\ heap[res[p]].ID = arg[p]
                   /\ Fields(res[p]) \in WholePairs(arg[p])
             /\ Step(p, "list", "ret") =>
                   /\ http'[p].status = StatusOK
                   /\ http'[p].out = "[" \o JSONList(lst[p]) \o "]"
                   /\ \A j \in DOMAIN lst[p] :
                         Fields(lst[p][j]) \in WholePairs(heap[lst[p][j]].ID)]_vars

\* C33 case: a GET /users/{id} holds the record it was handed, a PUT has
\* stored another record with another pair under that identifier since, and
\* the GET has not encoded its record yet.
C33_Witness ==
    \E p \in Procs :
        /\ pc[p] = "ret" /\ op[p] = "get" /\ err[p] = "nil"
        /\ arg[p] \in DOMAIN users /\ users[arg[p]] # res[p]
        /\ Fields(users[arg[p]]) # Fields(res[p])

\* C34: any two calculator requests to the same endpoint with the same
\* operands have the same answer, whatever the store held and whatever was
\* asked before; and the step that serves a calculator request, answered
\* 200 or 400, changes neither the store, its records, the counter, the
\* lock nor any call in progress.
C34_Independent ==
    /\ [](\A p, q \in Procs :
             /\ http[p].route \in CalcRoutes /\ http[q].route = http[p].route
             /\ Get(http[p].query, "a") = Get(http[q].query, "a")
             /\ Get(http[p].query, "b") = Get(http[q].query, "b")
             => http[q].status = http[p].status /\ http[q].out = http[p].out)
    /\ [][\A p \in Procs :
             Idle(p) /\ acts' # acts /\ http'[p].route \in CalcRoutes =>
                 /\ http'[p].status \in {StatusOK, StatusBadRequest}
                 /\ users' = users /\ nextID' = nextID /\ heap' = heap
                 /\ mutex' = mutex /\ hist' = hist
                 /\ <<pc, op, arg, res, lst, err>>' = <<pc, op, arg, res, lst, err>>]_vars

\* C34 case: a calculator request has been answered 200 and its call made
\* last, while the second POST /users is in the middle of CreateUser and the
\* store holds the first record.
C34_Witness ==
    \E p, q \in Procs :
        /\ pc[p] = "mut" /\ op[p] = "create" /\ nextID = 3
        /\ http[q].route \in CalcRoutes /\ http[q].status = StatusOK
        /\ calc.fn # "" /\ calc.err = "nil"

\* C35: no record is ever stored under an identifier below 1, and a GET,
\* PUT or DELETE /users/0 or /users/-1 is never answered "Invalid user ID":
\* the handler calls the repository with the identifier 0 or -1 and answers
\* 404 "User not found" when the call returns.  (A PUT whose body is
\* undecodable is answered 400 "Invalid request body", whatever the id.)
C35_NonPositiveID ==
    /\ [](\A k \in DOMAIN users : k >= 1)
    /\ [][\A p \in Procs : \A n \in {0, 0 - 1} :
             /\ Answered(p)
             /\ http'[p].route \in {"GET /users/", "PUT /users/", "DELETE /users/"}
             /\ http'[p].path = UsersPath(IF n = 0 THEN <<"0">> ELSE <<"-", "1">>)
             => /\ http'[p].out # ErrorJSON("Invalid user ID")
                /\ IF http'[p].route = "PUT /users/" /\ Decode(http'[p].in).err
                     THEN /\ http'[p].status = StatusBadRequest
                          /\ http'[p].out = ErrorJSON("Invalid request body")
                     ELSE /\ pc[p] = "unlock" /\ err[p] = NotFound
                          /\ (IF op[p] = "update" THEN heap[arg[p]].ID ELSE arg[p]) = n
                          /\ http'[p].status = StatusNotFound
                          /\ http'[p].out = ErrorJSON("User not found")
                          /\ repo' = repo]_vars

\* C35 case: DELETE /users/-1 was answered 404 on a store that holds a
\* record.
C35_Witness ==
    \E p \in Procs :
        /\ http[p].route = "DELETE /users/" /\ http[p].path = UsersPath(<<"-", "1">>)
        /\ http[p].status = StatusNotFound /\ users # <<>>

\* C36: when the latest write under an identifier is an UpdateUser with a
\* username and email and the store holds that record, an UpdateUser with
\* the same identifier, username and email succeeds as well and leaves the
\* keys, the records by key and the counter as they are.
C36_UpdateIdempotent ==
    [][\A p \in Procs :
          LET id == heap[arg[p]].ID
          IN  /\ op[p] = "update" /\ pc[p] \in {"cs", "mut"} /\ pc'[p] # pc[p]
              /\ id \in DOMAIN users /\ heap[users[id]] = heap[arg[p]]
              /\ orig[id].st = "updated" /\ orig[id].u = Fields(arg[p])
              => /\ err'[p] = "nil"
                 /\ pc'[p] = (IF pc[p] = "cs" THEN "mut" ELSE "unlock")
                 /\ DOMAIN users' = DOMAIN users /\ nextID' = nextID
                 /\ View' = View]_vars

\* C36 case: the second of two UpdateUser calls with the same identifier,
\* username and email, each with a record of its own, is about to store.
C36_Witness ==
    \E p \in Procs :
        LET id == heap[arg[p]].ID
        IN  /\ op[p] = "update" /\ pc[p] = "mut"
            /\ id \in DOMAIN users /\ users[id] # arg[p]
            /\ heap[users[id]] = heap[arg[p]]
            /\ orig[id].st = "updated" /\ orig[id].u = Fields(arg[p])

====
